---------------------------- MODULE Spec2Model ----------------------------
(***************************************************************************)
(* Model of the PolymMM-GuardedSpread market maker: the MarketMaker        *)
(* orchestrator (main loop and user-feed handlers), OrderManager,          *)
(* RiskManager, StateMachine, MarketSelector, the MarketFeed price cache   *)
(* and the connections of the two feeds, together with the venue they      *)
(* talk to.                                                                *)
(*                                                                         *)
(* Units.  Prices are integers in 1e-4 USDC (0.46 is 4600), sizes in 1e-2  *)
(* shares (5 shares is 500), so size * price is a notional in 1e-6 USDC.   *)
(* Times are milliseconds.  Sizes and times are exact; the amounts the     *)
(* RiskManager adds up are rounded as floating-point numbers are (see      *)
(* FpRound), and so are the spread compared with the minimum spread (see   *)
(* SpreadBelowMin) and the price move compared with the replace threshold  *)
(* (see PriceMoved).  An absent / undefined / null number is 0, which is   *)
(* also falsy in the source.                                               *)
(***************************************************************************)
EXTENDS Integers, Sequences, FiniteSets, TLC

(***************************************************************************)
(* Scales and bounds of the model                                          *)
(***************************************************************************)
PriceScale == 10000
SizeScale == 100
UsdcScale == PriceScale * SizeScale

NumAssets == 2          \* assets returned by the selector at start
MaxOrders == 3          \* order ids the venue hands out in one run
MaxQueue == 2           \* user-feed events in flight
MaxClockSteps == 1      \* clock advances in one run
ClockStepMs == 20000    \* one clock advance

Assets == 1..NumAssets

(***************************************************************************)
(* Configuration (defaults of config.ts)                                   *)
(***************************************************************************)
MIN_SPREAD == (15 * PriceScale) \div 1000      \* MIN_SPREAD_CENTS / 100
MIN_NOTIONAL_PER_ORDER_USDC == 2 * UsdcScale
MIN_EXPECTED_PROFIT_USDC == (2 * UsdcScale) \div 100
MAX_SHARES_PER_MARKET == 50 * SizeScale
MAX_USDC_PER_MARKET == 8 * UsdcScale
MAX_NOTIONAL_AT_RISK_USDC == 25 * UsdcScale
ORDER_TTL_MS == 10000
REPLACE_PRICE_TICKS == 1
ASK_CHASE_WINDOW_SEC == 8
ASK_CHASE_MAX_REPLACES == 3
DEFAULT_TICK_SIZE == PriceScale \div 100
MIN_SIZE_SHARES == 1 * SizeScale
POLYMARKET_MIN_SHARES == 5 * SizeScale
GRACE_PERIOD_MS == 30000

(***************************************************************************)
(* Small helpers                                                           *)
(***************************************************************************)
Max(x, y) == IF x >= y THEN x ELSE y
Abs(x) == IF x >= 0 THEN x ELSE 0 - x
\* x * y < z for naturals x, y and z > 0, without forming the product
MulLess(x, y, z) == IF y = 0 THEN 0 < z ELSE x <= (z - 1) \div y

(***************************************************************************)
(* JS numbers.  Amounts of the RiskManager are floating-point numbers: the *)
(* result of +, - and * is the exact result rounded to the nearest number  *)
(* the significand can hold, ties to the even significand.  The model      *)
(* counts amounts in their smallest unit (1e-6 USDC, 1e-2 share) and keeps *)
(* a significand of FpBits bits in place of the 53 of a JS number.         *)
(***************************************************************************)
FpBits == 27

\* the spacing of the representable numbers around x >= 0
RECURSIVE FpUlp(_)
FpUlp(x) == IF x < 2 ^ FpBits THEN 1 ELSE 2 * FpUlp(x \div 2)

\* the representable number nearest to m >= 0, ties to the even significand
FpNearest(m) ==
    LET q == FpUlp(m)
        lo == (m \div q) * q
        up == IF 2 * (m - lo) > q THEN TRUE
              ELSE IF 2 * (m - lo) < q THEN FALSE
              ELSE (lo \div q) % 2 = 1
    IN  IF up THEN lo + q ELSE lo

\* x rounded; the exact result x is computed once, then rounded
FpRound(x) ==
    CHOOSE n \in { IF v >= 0 THEN FpNearest(v) ELSE 0 - FpNearest(0 - v) : v \in {x} } :
        TRUE

FpAdd(x, y) == FpRound(x + y)
FpSub(x, y) == FpRound(x - y)
FpMul(x, y) == FpRound(x * y)

(***************************************************************************)
(* Prices are JS numbers too: the price p (in 1e-4) of a message is the    *)
(* floating-point number nearest to p / 10000, which is not p / 10000      *)
(* unless that is a binary fraction.  The model keeps a significand of     *)
(* PriceBits bits and counts such a number in units of 2^-PriceUnitBits,   *)
(* which holds every price from MinFloatPrice up to 1.                     *)
(***************************************************************************)
PriceBits == 24
PriceUnitBits == PriceBits + 6
MinFloatPrice == (PriceScale \div 2 ^ 7) + 1

\* the binary expansion of r / PriceScale, one bit a step, until the
\* significand q has PriceBits bits: << q, remainder, bits produced >>
RECURSIVE Normalise(_, _, _)
Normalise(q, r, t) ==
    IF q >= 2 ^ (PriceBits - 1) THEN << q, r, t >>
    ELSE IF 2 * r >= PriceScale THEN Normalise(2 * q + 1, 2 * r - PriceScale, t + 1)
    ELSE Normalise(2 * q, 2 * r, t + 1)

\* the floating-point number nearest to p / PriceScale (ties to even)
ToFloat(p) ==
    LET n == Normalise(0, p, 0)
        up == \/ 2 * n[2] > PriceScale
              \/ 2 * n[2] = PriceScale /\ n[1] % 2 = 1
    IN  (IF up THEN n[1] + 1 ELSE n[1]) * 2 ^ (PriceUnitBits - n[3])

PriceFloat == [ p \in MinFloatPrice .. (PriceScale - 1) |-> ToFloat(p) ]

\* the spacing of the representable numbers around x >= 0
RECURSIVE FloatUlp(_)
FloatUlp(x) == IF x < 2 ^ PriceBits THEN 1 ELSE 2 * FloatUlp(x \div 2)

\* x - y in floating point, for x >= y
FloatSub(x, y) ==
    CHOOSE n \in { LET q == FloatUlp(d)
                       lo == (d \div q) * q
                       up == \/ 2 * (d - lo) > q
                             \/ 2 * (d - lo) = q /\ (lo \div q) % 2 = 1
                   IN  IF up THEN lo + q ELSE lo : d \in { x - y } } : TRUE

\* bestAsk - bestBid < MIN_SPREAD_CENTS / 100 as the code computes it
SpreadBelowMin(bestBid, bestAsk) ==
    FloatSub(PriceFloat[bestAsk], PriceFloat[bestBid]) < PriceFloat[MIN_SPREAD]

\* Math.abs(current - price) >= REPLACE_PRICE_TICKS * DEFAULT_TICK_SIZE as
\* the code computes it
PriceMoved(current, price) ==
    LET hi == IF current >= price THEN current ELSE price
        lo == IF current >= price THEN price ELSE current
    IN  FloatSub(PriceFloat[hi], PriceFloat[lo])
            >= REPLACE_PRICE_TICKS * PriceFloat[DEFAULT_TICK_SIZE]

(***************************************************************************)
(* State                                                                   *)
(***************************************************************************)
VARIABLES
    states,                 \* StateMachine.states
    activeOrders,           \* OrderManager.activeOrders
    exposureByMarket,       \* RiskManager.exposureByMarket
    globalNotionalAtRisk,   \* RiskManager.globalNotionalAtRisk
    lastPrices,             \* MarketFeed.lastPrices
    tickSizes,              \* MarketFeed.tickSizes
    activeMarkets,          \* MarketMaker.activeMarkets
    dryRun,                 \* DRY_RUN
    selector,               \* MarketSelector: the last selectMarkets() call
    riskCalls,              \* RiskManager calls made from outside the program
    stop,                   \* MarketMaker.running and where stop() is suspended
    conn,                   \* per feed, the state of its WebSocket connection
    sub,                    \* MarketFeed: subscribed assets and the frame last sent
    now,                    \* Date.now()
    loop,                   \* the main loop: where it is suspended and its locals
    venue,                  \* orders live at the venue
    userQueue,              \* user-channel events sent by the venue, not yet handled
    nextOrderId,            \* next order id the venue hands out
    checked                 \* per asset, what canPlaceBuy last admitted (history)

vars == << states, activeOrders, exposureByMarket, globalNotionalAtRisk, lastPrices,
           tickSizes, activeMarkets, dryRun, selector, riskCalls, stop, conn, sub, now, loop, venue, userQueue,
           nextOrderId, checked >>

(***************************************************************************)
(* StateMachine                                                            *)
(***************************************************************************)
\* A market that has no record (states.get gives undefined)
NoState == [ state |-> "NONE", buyOrderId |-> 0, buyPrice |-> 0, buySize |-> 0,
             sellOrderId |-> 0, sellPrice |-> 0, sellSize |-> 0,
             askChaseStartedAt |-> 0, askChaseReplaceCount |-> 0,
             positionShares |-> 0, initializedAt |-> 0 ]

\* initMarket, and the record transitionToIdle rebuilds
initMarket(t) == [ NoState EXCEPT !.state = "IDLE", !.initializedAt = t ]

transitionToPlaceBuy(s) ==
    IF s.state = "NONE" \/ s.state # "IDLE" THEN s
    ELSE [ s EXCEPT !.state = "PLACE_BUY" ]

transitionToWaitBuyFill(s, orderId, price, size) ==
    IF s.state = "NONE" \/ s.state # "PLACE_BUY" THEN s
    ELSE [ s EXCEPT !.state = "WAIT_BUY_FILL", !.buyOrderId = orderId,
                    !.buyPrice = price, !.buySize = size ]

transitionToPlaceSell(s, filledSize) ==
    IF s.state = "NONE" \/ s.state # "WAIT_BUY_FILL" THEN s
    ELSE [ s EXCEPT !.state = "PLACE_SELL", !.positionShares = filledSize ]

transitionToAskChase(s, orderId, price, size, t) ==
    IF s.state = "NONE" \/ s.state # "PLACE_SELL" THEN s
    ELSE [ s EXCEPT !.state = "ASK_CHASE", !.sellOrderId = orderId,
                    !.sellPrice = price, !.sellSize = size,
                    !.askChaseStartedAt = t, !.askChaseReplaceCount = 0 ]

transitionToWaitSellFill(s) ==
    IF s.state = "NONE" \/ s.state # "ASK_CHASE" THEN s
    ELSE [ s EXCEPT !.state = "WAIT_SELL_FILL" ]

\* a transitionToComplete without its source-state test, to show what C36
\* owes to the guards of the transition methods
transitionToCompleteFromAny(s) ==
    IF s.state = "NONE" THEN s
    ELSE [ s EXCEPT !.state = "COMPLETE" ]

transitionToComplete(s) ==
    IF s.state = "NONE" \/ (s.state # "WAIT_SELL_FILL" /\ s.state # "ASK_CHASE") THEN s
    ELSE [ s EXCEPT !.state = "COMPLETE" ]

\* a transitionToIdle that accepts COMPLETE only (the PLACE_BUY entry of the
\* allowed list dropped), to show what C13 owes to that entry
transitionToIdleFromCompleteOnly(s) ==
    IF s.state = "NONE" \/ s.state # "COMPLETE" THEN s
    ELSE initMarket(s.initializedAt)

transitionToIdle(s) ==
    IF s.state = "NONE" \/ (s.state # "COMPLETE" /\ s.state # "PLACE_BUY") THEN s
    ELSE initMarket(s.initializedAt)

transitionToDeactivating(s) ==
    IF s.state = "NONE" THEN s ELSE [ s EXCEPT !.state = "DEACTIVATING" ]

incrementAskChaseReplace(s) ==
    IF s.state = "NONE" \/ s.state # "ASK_CHASE" THEN s
    ELSE [ s EXCEPT !.askChaseReplaceCount = s.askChaseReplaceCount + 1 ]

(***************************************************************************)
(* RiskManager.  A risk state is the pair of exposureByMarket and          *)
(* globalNotionalAtRisk, written [ exp |-> ..., glob |-> ... ].            *)
(***************************************************************************)
NoExposure == [ present |-> FALSE, shares |-> 0, notionalUsdc |-> 0 ]

\* canPlaceBuy with a min_notional test that also denies the boundary
\* (<= in place of <), to show what C18 owes to the strict comparison
canPlaceBuyNonStrict(r, tokenId, sizeShares, price, spread) ==
    LET notional == FpMul(sizeShares, price)
        currentShares == r.exp[tokenId].shares
        currentNotional == r.exp[tokenId].notionalUsdc
    IN  IF notional <= (MIN_NOTIONAL_PER_ORDER_USDC * 995) \div 1000 THEN "min_notional"
        ELSE IF MulLess(spread, notional, MIN_EXPECTED_PROFIT_USDC * PriceScale)
            THEN "expected_profit_low"
        ELSE IF sizeShares < MIN_SIZE_SHARES THEN "min_size"
        ELSE IF FpAdd(currentShares, sizeShares) > MAX_SHARES_PER_MARKET
            THEN "shares_cap"
        ELSE IF FpAdd(currentNotional, notional) > MAX_USDC_PER_MARKET
            THEN "market_notional_cap"
        ELSE IF FpAdd(r.glob, notional) > MAX_NOTIONAL_AT_RISK_USDC
            THEN "global_notional_cap"
        ELSE "allowed"

\* the deny reason of canPlaceBuy, "allowed" when there is none
canPlaceBuy(r, tokenId, sizeShares, price, spread) ==
    LET notional == FpMul(sizeShares, price)
        currentShares == r.exp[tokenId].shares
        currentNotional == r.exp[tokenId].notionalUsdc
    IN  IF notional < (MIN_NOTIONAL_PER_ORDER_USDC * 995) \div 1000 THEN "min_notional"
        ELSE IF MulLess(spread, notional, MIN_EXPECTED_PROFIT_USDC * PriceScale)
            THEN "expected_profit_low"
        ELSE IF sizeShares < MIN_SIZE_SHARES THEN "min_size"
        ELSE IF FpAdd(currentShares, sizeShares) > MAX_SHARES_PER_MARKET
            THEN "shares_cap"
        ELSE IF FpAdd(currentNotional, notional) > MAX_USDC_PER_MARKET
            THEN "market_notional_cap"
        ELSE IF FpAdd(r.glob, notional) > MAX_NOTIONAL_AT_RISK_USDC
            THEN "global_notional_cap"
        ELSE "allowed"

recordBuyOrder(r, tokenId, sizeShares, price) ==
    LET notional == FpMul(sizeShares, price)
        current == r.exp[tokenId]
    IN  [ exp |-> [ r.exp EXCEPT ![tokenId] =
                      [ present |-> TRUE,
                        shares |-> FpAdd(current.shares, sizeShares),
                        notionalUsdc |-> FpAdd(current.notionalUsdc, notional) ] ],
          glob |-> FpAdd(r.glob, notional) ]

recordSellFill(r, tokenId, sizeShares, price) ==
    LET notional == FpMul(sizeShares, price)
        current == r.exp[tokenId]
    IN  IF ~current.present THEN r
        ELSE [ exp |-> [ r.exp EXCEPT ![tokenId] =
                           [ present |-> TRUE,
                             shares |-> Max(0, FpSub(current.shares, sizeShares)),
                             notionalUsdc |->
                               Max(0, FpSub(current.notionalUsdc, notional)) ] ],
               glob |-> Max(0, FpSub(r.glob, notional)) ]

cancelBuyOrder(r, tokenId, sizeShares, price) ==
    LET notional == FpMul(sizeShares, price)
        current == r.exp[tokenId]
    IN  IF ~current.present THEN r
        ELSE [ exp |-> [ r.exp EXCEPT ![tokenId] =
                           [ present |-> TRUE,
                             shares |-> Max(0, FpSub(current.shares, sizeShares)),
                             notionalUsdc |->
                               Max(0, FpSub(current.notionalUsdc, notional)) ] ],
               glob |-> Max(0, FpSub(r.glob, notional)) ]

cleanMarket(r, tokenId) ==
    IF ~r.exp[tokenId].present THEN r
    ELSE [ exp |-> [ r.exp EXCEPT ![tokenId] = NoExposure ],
           glob |-> Max(0, FpSub(r.glob, r.exp[tokenId].notionalUsdc)) ]

Risk == [ exp |-> exposureByMarket, glob |-> globalNotionalAtRisk ]

(***************************************************************************)
(* OrderManager: the parts that do not talk to the venue                   *)
(***************************************************************************)
NoOrder == [ orderId |-> 0, side |-> "NONE", price |-> 0, size |-> 0, placedAt |-> 0 ]

\* placeBuy / placeSell without the post-only test, to show what C14 owes
\* to it
PlaceRefusalSideLockOnly(ao, side, tokenId, bestBid, bestAsk) ==
    IF ao[tokenId].orderId # 0 THEN "order_already_active" ELSE "none"

\* what placeBuy / placeSell answer before building the order, "none" when
\* they go on to the venue; ao is the activeOrders map
PlaceRefusal(ao, side, tokenId, bestBid, bestAsk) ==
    IF ao[tokenId].orderId # 0 THEN "order_already_active"
    ELSE IF side = "BUY" /\ bestBid >= bestAsk THEN "would_cross"
    ELSE IF side = "SELL" /\ bestAsk <= bestBid THEN "would_cross"
    ELSE "none"

\* the early returns of replaceBuy / replaceSell; newPrice is the new best
\* bid for a BUY, the new best ask for a SELL
ReplaceRefused(ao, side, tokenId, newPrice) ==
    \/ ao[tokenId].orderId = 0
    \/ ao[tokenId].side # side
    \/ ~PriceMoved(newPrice, ao[tokenId].price)

shouldReplaceBuy(ao, t, tokenId, currentBestBid) ==
    /\ ao[tokenId].orderId # 0
    /\ ao[tokenId].side = "BUY"
    /\ \/ t - ao[tokenId].placedAt > ORDER_TTL_MS
       \/ PriceMoved(currentBestBid, ao[tokenId].price)

shouldReplaceSell(ao, t, tokenId, currentBestAsk) ==
    /\ ao[tokenId].orderId # 0
    /\ ao[tokenId].side = "SELL"
    /\ \/ t - ao[tokenId].placedAt > ORDER_TTL_MS
       \/ PriceMoved(currentBestAsk, ao[tokenId].price)

canAskChase(ao, t, tokenId, replaceCount) ==
    /\ ao[tokenId].orderId # 0
    /\ ao[tokenId].side = "SELL"
    /\ ~(t - ao[tokenId].placedAt > ASK_CHASE_WINDOW_SEC * 1000)
    /\ ~(replaceCount >= ASK_CHASE_MAX_REPLACES)

\* removeActiveOrder, and the delete of cancelOrder
removeActiveOrder(ao, tokenId) == [ ao EXCEPT ![tokenId] = NoOrder ]

(***************************************************************************)
(* MarketMaker: pure helpers                                               *)
(***************************************************************************)
calculateOrderSize(price) ==
    LET size == MIN_NOTIONAL_PER_ORDER_USDC \div price
        effectiveMinSize == Max(MIN_SIZE_SHARES, POLYMARKET_MIN_SHARES)
    IN  IF size < effectiveMinSize THEN effectiveMinSize ELSE size

NoPrices == [ bestBid |-> 0, bestAsk |-> 0 ]

\* the "no prices" test every handler starts with
HasPrices(lp, tokenId) == lp[tokenId].bestBid # 0 /\ lp[tokenId].bestAsk # 0

\* the reason checkExitCriteria returns, "none" for null
checkExitCriteria(s, lp, t, tokenId) ==
    IF s.state = "NONE" THEN "none"
    ELSE IF t - s.initializedAt < GRACE_PERIOD_MS THEN "none"
    ELSE IF ~HasPrices(lp, tokenId) THEN "no_prices"
    ELSE IF SpreadBelowMin(lp[tokenId].bestBid, lp[tokenId].bestAsk) THEN "spread_too_small"
    ELSE "none"

\* the aberrant-price guards of handleWaitBuyFillState / handleWaitSellFillState
AberrantPrices(bestBid, bestAsk) ==
    \/ bestBid * 1000 < PriceScale
    \/ bestBid * 1000 > 999 * PriceScale
    \/ bestAsk * 1000 < PriceScale
    \/ bestAsk * 1000 > 999 * PriceScale
    \/ (bestAsk - bestBid) * 1000 < PriceScale
    \/ (bestAsk - bestBid) * 10 > 5 * PriceScale


(***************************************************************************)
(* MarketFeed: message handling (the handleMessage variant whose listener  *)
(* signature is the one MarketMaker.start subscribes with).  A message is  *)
(* [ event_type, asset_id, bid, ask, tick ]: for a book the first level of *)
(* bids and asks, for a price_change one entry of price_changes.  The      *)
(* result is the pair of caches [ lp |-> lastPrices, ts |-> tickSizes ].   *)
(***************************************************************************)
handleMessage(lp, ts, msg) ==
    IF msg.event_type = "book" THEN
        IF msg.bid # 0 /\ msg.ask # 0 /\ msg.bid < msg.ask /\ msg.bid > 0
           /\ msg.ask <= PriceScale
        THEN [ lp |-> [ lp EXCEPT ![msg.asset_id] =
                          [ bestBid |-> msg.bid, bestAsk |-> msg.ask ] ],
               ts |-> ts ]
        ELSE [ lp |-> lp, ts |-> ts ]
    ELSE IF msg.event_type = "price_change" THEN
        IF msg.bid # 0 /\ msg.ask # 0 /\ msg.bid > 0 /\ msg.ask <= PriceScale
           /\ msg.bid < msg.ask /\ (msg.ask - msg.bid) * 5 <= PriceScale
        THEN [ lp |-> [ lp EXCEPT ![msg.asset_id] =
                          [ bestBid |-> msg.bid, bestAsk |-> msg.ask ] ],
               ts |-> ts ]
        ELSE [ lp |-> lp, ts |-> ts ]
    ELSE IF msg.event_type = "tick_size_change" THEN
        IF msg.tick > 0 /\ msg.tick <= PriceScale
        THEN [ lp |-> lp, ts |-> [ ts EXCEPT ![msg.asset_id] = msg.tick ] ]
        ELSE [ lp |-> lp, ts |-> ts ]
    ELSE [ lp |-> lp, ts |-> ts ]

(***************************************************************************)
(* The main loop.  It is suspended either in the 500 ms sleep between two  *)
(* passes ("sleep"), between two markets of a pass ("run"), or inside a    *)
(* handler on a venue call ("await_cancel", "await_post"); the handler's   *)
(* locals are kept in the record.  The venue answers a request when it     *)
(* receives it; the answer (resp) reaches the loop in a later step.        *)
(***************************************************************************)
NoResp == [ ok |-> FALSE, orderId |-> 0 ]

\* the selector before selectMarkets() is called
NoSelection == [ candidates |-> << >>, MAX_MARKETS |-> 0, MAX_MARKETS_PER_EVENT |-> 0,
                 final |-> << >>, done |-> FALSE ]

\* the feeds and their state before the first connect() / subscribe()
Feeds == { "market", "user" }

NoConn ==
    [ ws |-> "none", isConnecting |-> FALSE, reconnectAttempts |-> 0,
      reconnectTimeout |-> 0,   \* the delay of the pending timer, 0 for none
      tries |-> 0 ]             \* connection attempts since the last open (history)

NoFrame == [ sent |-> FALSE, assets_ids |-> {} ]

NoSub ==
    [ subscribed |-> {}, currentTokenIds |-> {}, subTimer |-> FALSE,
      frame |-> NoFrame,        \* last subscribe frame sent on the current socket
      wanted |-> {} ]           \* assets subscribed and not unsubscribed (history)

\* stop(): "off" while running is true, "await_cancel" inside the
\* cancelOrder of market cur, "done" once stop() has returned
StopAt(pc, cur) == [ pc |-> pc, cur |-> cur, resp |-> NoResp ]

LoopAt(pc, cur) ==
    [ pc |-> pc, cur |-> cur, handler |-> "NONE", side |-> "NONE", bestBid |-> 0,
      bestAsk |-> 0, size |-> 0, oldPrice |-> 0, oldSize |-> 0, resp |-> NoResp,
      cancelled |-> FALSE, error |-> "none" ]

\* for (const [tokenId, market] of this.activeMarkets.entries()): the entry
\* after tokenId, or the sleep at the end of the pass
NextMarket(tokenId, am) ==
    IF \E b \in am : b > tokenId
    THEN LoopAt("run", CHOOSE b \in am : b > tokenId /\ \A c \in am : c > tokenId => b <= c)
    ELSE LoopAt("sleep", 0)

NoCheck == [ size |-> 0, price |-> 0, glob |-> 0 ]

\* the values a synchronous stretch of code leaves in the program's maps
Commit(sts, ao, r, am) ==
    /\ states' = sts
    /\ activeOrders' = ao
    /\ exposureByMarket' = r.exp
    /\ globalNotionalAtRisk' = r.glob
    /\ activeMarkets' = am

\* Math.floor of a share count
FloorShares(size) == (size \div SizeScale) * SizeScale

(***************************************************************************)
(* The code of each handler after its place call has returned (ok, id).    *)
(* L is the suspended loop record with the handler's locals.               *)
(***************************************************************************)
AfterPlace(h, a, ok, id, L, sts, ao, r, am) ==
    LET s == sts[a]
    IN
    /\ CASE h = "PLACE_BUY" ->
              /\ checked' = [ checked EXCEPT ![a] = NoCheck ]
              /\ IF ok /\ id # 0
                 THEN Commit([ sts EXCEPT ![a] =
                                 transitionToWaitBuyFill(s, id, L.bestBid, L.size) ],
                             ao, recordBuyOrder(r, a, L.size, L.bestBid), am)
                 ELSE Commit([ sts EXCEPT ![a] = transitionToIdle(s) ], ao, r, am)
              /\ loop' = NextMarket(a, am)
         [] h = "WAIT_BUY_FILL" ->
              /\ checked' = checked
              /\ IF ok /\ id # 0
                 THEN LET r1 == IF L.oldPrice # 0 /\ L.oldSize # 0
                                THEN cancelBuyOrder(r, a, L.oldSize, L.oldPrice)
                                ELSE r
                      IN Commit([ sts EXCEPT ![a] =
                                    [ s EXCEPT !.buyOrderId = id, !.buyPrice = L.bestBid ] ],
                                ao, recordBuyOrder(r1, a, L.oldSize, L.bestBid), am)
                 ELSE Commit(sts, ao, r, am)
              /\ loop' = NextMarket(a, am)
         [] h = "PLACE_SELL" ->
              /\ checked' = checked
              /\ IF ok /\ id # 0
                 THEN Commit([ sts EXCEPT ![a] =
                                 transitionToAskChase(s, id, L.bestAsk, L.size, now) ],
                             ao, r, am)
                 ELSE Commit(sts, ao, r, am)
              /\ loop' = NextMarket(a, am)
         [] h = "ASK_CHASE" ->
              /\ checked' = checked
              /\ IF ok
                 THEN Commit([ sts EXCEPT ![a] = incrementAskChaseReplace(s) ], ao, r, am)
                 ELSE Commit(sts, ao, r, am)
              /\ loop' = NextMarket(a, am)
         [] h = "WAIT_SELL_FILL" ->
              /\ checked' = checked
              /\ IF ok /\ id # 0
                 THEN Commit([ sts EXCEPT ![a] =
                                 [ s EXCEPT !.sellOrderId = id, !.sellPrice = L.bestAsk ] ],
                             ao, r, am)
                 ELSE Commit(sts, ao, r, am)
              /\ loop' = NextMarket(a, am)
         [] h = "DEACTIVATE" ->
              \* deactivateMarket ignores the result: clean up and drop the market
              /\ checked' = [ checked EXCEPT ![a] = NoCheck ]
              /\ Commit([ sts EXCEPT ![a] = NoState ], ao, cleanMarket(r, a), am \ {a})
              /\ loop' = NextMarket(a, am \ {a})
         [] h = "CALL" ->
              \* placeBuy / placeSell called on its own: the result is kept
              /\ checked' = checked
              /\ Commit(sts, ao, r, am)
              /\ loop' = [ L EXCEPT !.pc = "done", !.handler = h,
                                    !.resp = [ ok |-> ok, orderId |-> id ] ]


(***************************************************************************)
(* clob.postOrder: the request reaches the venue, which accepts the order  *)
(* (it is live from then on) or rejects it; the loop waits for the answer. *)
(***************************************************************************)
PostOrder(h, a, side, price, size, L) ==
    \/ /\ nextOrderId <= MaxOrders
       /\ venue' = venue \cup { [ orderId |-> nextOrderId, asset |-> a, side |-> side,
                                  price |-> price, size |-> size ] }
       /\ nextOrderId' = nextOrderId + 1
       /\ loop' = [ L EXCEPT !.pc = "await_post", !.handler = h, !.size = size,
                             !.resp = [ ok |-> TRUE, orderId |-> nextOrderId ] ]
    \/ /\ UNCHANGED << venue, nextOrderId >>
       /\ loop' = [ L EXCEPT !.pc = "await_post", !.handler = h, !.size = size,
                             !.resp = NoResp, !.error = "api_error" ]

(***************************************************************************)
(* OrderManager.placeBuy / placeSell up to the venue call, then the        *)
(* handler's code when the call returns without one.                       *)
(***************************************************************************)
Place(h, a, side, bestBid, bestAsk, size, L, sts, ao, r, am) ==
    LET refusal == PlaceRefusal(ao, side, a, bestBid, bestAsk)
        price == IF side = "BUY" THEN bestBid ELSE bestAsk
        L2 == [ L EXCEPT !.bestBid = bestBid, !.bestAsk = bestAsk, !.size = size,
                         !.side = side, !.error = refusal ]
    IN  IF refusal # "none"
        THEN /\ AfterPlace(h, a, FALSE, 0, L2, sts, ao, r, am)
             /\ UNCHANGED << venue, nextOrderId >>
        ELSE IF dryRun
        THEN \* a synthetic id, no venue call, and no ActiveOrder is recorded
             /\ AfterPlace(h, a, TRUE, nextOrderId, L2, sts, ao, r, am)
             /\ UNCHANGED << venue, nextOrderId >>
        ELSE /\ Commit(sts, ao, r, am)
             /\ PostOrder(h, a, side, price, size, L2)
             /\ checked' = checked

(***************************************************************************)
(* The code that follows `await this.orderManager.cancelOrder(tokenId)`;   *)
(* its result (L.cancelled) is not looked at.  lp is the price cache at    *)
(* that moment.                                                            *)
(***************************************************************************)
AfterCancel(h, a, L, sts, ao, r, am, lp) ==
    CASE h = "WAIT_BUY_FILL" ->
           Place(h, a, "BUY", L.bestBid, L.bestAsk, L.size, L, sts, ao, r, am)
      [] h \in { "ASK_CHASE", "WAIT_SELL_FILL" } ->
           Place(h, a, "SELL", L.bestBid, L.bestAsk, L.size, L, sts, ao, r, am)
      [] h = "DEACTIVATE" ->
           IF sts[a].positionShares > 0 /\ HasPrices(lp, a)
           THEN Place(h, a, "SELL", lp[a].bestBid, lp[a].bestAsk,
                      FloorShares(sts[a].positionShares), L, sts, ao, r, am)
           ELSE /\ AfterPlace(h, a, FALSE, 0, L, sts, ao, r, am)
                /\ UNCHANGED << venue, nextOrderId >>
      [] h = "CALL" ->
           \* cancelOrder called on its own
           /\ Commit(sts, ao, r, am)
           /\ loop' = [ L EXCEPT !.pc = "done", !.handler = h ]
           /\ UNCHANGED << venue, nextOrderId, checked >>

(***************************************************************************)
(* clob.cancelOrders([orderId]): the venue cancels the order if it is live *)
(* and tells the user channel; the call can also fail, and a call for an   *)
(* order that is no longer live is answered either way.                    *)
(***************************************************************************)
CancelledEvent(o) ==
    [ type |-> "order", orderId |-> o.orderId, asset |-> o.asset, side |-> o.side,
      price |-> o.price, size |-> o.size, status |-> "CANCELLED" ]

FillEvent(o) ==
    [ type |-> "fill", orderId |-> o.orderId, asset |-> o.asset, side |-> o.side,
      price |-> o.price, size |-> o.size, status |-> "MATCHED" ]

CancelOrders(h, orderId, L) ==
    LET live == { o \in venue : o.orderId = orderId }
    IN  \/ /\ live # {}
           /\ Len(userQueue) < MaxQueue
           /\ venue' = venue \ live
           /\ userQueue' = Append(userQueue, CancelledEvent(CHOOSE o \in live : TRUE))
           /\ loop' = [ L EXCEPT !.pc = "await_cancel", !.handler = h,
                                 !.resp = [ ok |-> TRUE, orderId |-> orderId ] ]
        \/ /\ live = {}
           /\ UNCHANGED << venue, userQueue >>
           /\ loop' = [ L EXCEPT !.pc = "await_cancel", !.handler = h,
                                 !.resp = [ ok |-> TRUE, orderId |-> orderId ] ]
        \/ /\ UNCHANGED << venue, userQueue >>
           /\ loop' = [ L EXCEPT !.pc = "await_cancel", !.handler = h,
                                 !.resp = [ ok |-> FALSE, orderId |-> orderId ] ]

(***************************************************************************)
(* OrderManager.cancelOrder up to the venue call                           *)
(***************************************************************************)
Cancel(h, a, L, sts, ao, r, am) ==
    IF ao[a].orderId = 0
    THEN /\ AfterCancel(h, a, [ L EXCEPT !.cancelled = FALSE ], sts, ao, r, am,
                        lastPrices)
         /\ userQueue' = userQueue
    ELSE IF dryRun
    THEN /\ AfterCancel(h, a, [ L EXCEPT !.cancelled = TRUE ], sts,
                        removeActiveOrder(ao, a), r, am, lastPrices)
         /\ userQueue' = userQueue
    ELSE /\ Commit(sts, ao, r, am)
         /\ CancelOrders(h, ao[a].orderId, L)
         /\ nextOrderId' = nextOrderId
         /\ checked' = checked


(***************************************************************************)
(* processMarket(tokenId): everything the loop does for one market up to   *)
(* the first venue call, or to the end of the handler when there is none.  *)
(***************************************************************************)
\* a handler that returns without calling the venue, leaving sts and r
Return(a, sts, r) ==
    /\ Commit(sts, activeOrders, r, activeMarkets)
    /\ loop' = NextMarket(a, activeMarkets)
    /\ UNCHANGED << venue, nextOrderId, userQueue >>

\* handleIdleState without the risk check, to show what C19 owes to it
handleIdleStateUnchecked(a) ==
    LET bestBid == lastPrices[a].bestBid
        bestAsk == lastPrices[a].bestAsk
        spread == bestAsk - bestBid
        size == calculateOrderSize(bestBid)
    IN  IF ~HasPrices(lastPrices, a)
        THEN Return(a, states, Risk) /\ checked' = checked
        ELSE IF SpreadBelowMin(bestBid, bestAsk)
        THEN Return(a, states, Risk) /\ checked' = checked
        ELSE /\ Return(a, [ states EXCEPT ![a] = transitionToPlaceBuy(states[a]) ], Risk)
             /\ checked' = [ checked EXCEPT ![a] =
                               [ size |-> size, price |-> bestBid,
                                 glob |-> globalNotionalAtRisk ] ]

handleIdleState(a) ==
    LET bestBid == lastPrices[a].bestBid
        bestAsk == lastPrices[a].bestAsk
        spread == bestAsk - bestBid
        size == calculateOrderSize(bestBid)
        riskCheck == canPlaceBuy(Risk, a, size, bestBid, spread)
    IN  IF ~HasPrices(lastPrices, a)
        THEN Return(a, states, Risk) /\ checked' = checked
        ELSE IF SpreadBelowMin(bestBid, bestAsk)
        THEN Return(a, states, Risk) /\ checked' = checked
        ELSE IF riskCheck # "allowed"
        THEN Return(a, states, Risk) /\ checked' = checked
        ELSE /\ Return(a, [ states EXCEPT ![a] = transitionToPlaceBuy(states[a]) ], Risk)
             /\ checked' = [ checked EXCEPT ![a] =
                               [ size |-> size, price |-> bestBid,
                                 glob |-> globalNotionalAtRisk ] ]

handlePlaceBuyState(a) ==
    LET bestBid == lastPrices[a].bestBid
        bestAsk == lastPrices[a].bestAsk
        size == calculateOrderSize(bestBid)
    IN  IF ~HasPrices(lastPrices, a)
        THEN Return(a, states, Risk) /\ checked' = checked
        ELSE /\ Place("PLACE_BUY", a, "BUY", bestBid, bestAsk, size, loop,
                      states, activeOrders, Risk, activeMarkets)
             /\ userQueue' = userQueue

handleWaitBuyFillState(a) ==
    LET bestBid == lastPrices[a].bestBid
        bestAsk == lastPrices[a].bestAsk
        L == [ loop EXCEPT !.bestBid = bestBid, !.bestAsk = bestAsk,
                           !.oldPrice = states[a].buyPrice,
                           !.oldSize = states[a].buySize,
                           !.size = activeOrders[a].size ]
    IN  IF ~HasPrices(lastPrices, a)
        THEN Return(a, states, Risk) /\ checked' = checked
        ELSE IF AberrantPrices(bestBid, bestAsk)
        THEN Return(a, states, Risk) /\ checked' = checked
        ELSE IF ~shouldReplaceBuy(activeOrders, now, a, bestBid)
        THEN Return(a, states, Risk) /\ checked' = checked
        ELSE IF ReplaceRefused(activeOrders, "BUY", a, bestBid)
        THEN Return(a, states, Risk)
             /\ checked' = checked
        ELSE Cancel("WAIT_BUY_FILL", a, [ L EXCEPT !.side = "BUY" ],
                    states, activeOrders, Risk, activeMarkets)

handlePlaceSellState(a) ==
    LET bestBid == lastPrices[a].bestBid
        bestAsk == lastPrices[a].bestAsk
        size == FloorShares(states[a].positionShares)
    IN  IF states[a].positionShares = 0
        THEN Return(a, states, Risk) /\ checked' = checked
        ELSE IF ~HasPrices(lastPrices, a)
        THEN Return(a, states, Risk) /\ checked' = checked
        ELSE /\ Place("PLACE_SELL", a, "SELL", bestBid, bestAsk, size, loop,
                      states, activeOrders, Risk, activeMarkets)
             /\ userQueue' = userQueue

handleAskChaseState(a) ==
    LET bestBid == lastPrices[a].bestBid
        bestAsk == lastPrices[a].bestAsk
        L == [ loop EXCEPT !.bestBid = bestBid, !.bestAsk = bestAsk, !.side = "SELL",
                           !.size = activeOrders[a].size ]
    IN  IF ~HasPrices(lastPrices, a)
        THEN Return(a, states, Risk) /\ checked' = checked
        ELSE IF ~canAskChase(activeOrders, now, a, states[a].askChaseReplaceCount)
        THEN /\ Return(a, [ states EXCEPT ![a] = transitionToWaitSellFill(states[a]) ], Risk)
             /\ checked' = checked
        ELSE IF ReplaceRefused(activeOrders, "SELL", a, bestAsk)
        THEN Return(a, states, Risk) /\ checked' = checked
        ELSE Cancel("ASK_CHASE", a, L, states, activeOrders, Risk, activeMarkets)

handleWaitSellFillState(a) ==
    LET bestBid == lastPrices[a].bestBid
        bestAsk == lastPrices[a].bestAsk
        L == [ loop EXCEPT !.bestBid = bestBid, !.bestAsk = bestAsk, !.side = "SELL",
                           !.size = activeOrders[a].size ]
    IN  IF ~HasPrices(lastPrices, a)
        THEN Return(a, states, Risk) /\ checked' = checked
        ELSE IF AberrantPrices(bestBid, bestAsk)
        THEN Return(a, states, Risk) /\ checked' = checked
        ELSE IF ~shouldReplaceSell(activeOrders, now, a, bestAsk)
        THEN Return(a, states, Risk) /\ checked' = checked
        ELSE IF ReplaceRefused(activeOrders, "SELL", a, bestAsk)
        THEN Return(a, states, Risk)
             /\ checked' = checked
        ELSE Cancel("WAIT_SELL_FILL", a, L, states, activeOrders, Risk, activeMarkets)

deactivateMarket(a) ==
    Cancel("DEACTIVATE", a, loop,
           [ states EXCEPT ![a] = transitionToDeactivating(states[a]) ],
           activeOrders, Risk, activeMarkets)

ProcessMarket(a) ==
    /\ loop.pc = "run"
    /\ loop.cur = a
    /\ UNCHANGED << lastPrices, tickSizes, dryRun, selector, riskCalls, stop, conn, sub, now >>
    /\ IF states[a].state = "NONE"
       THEN Return(a, states, Risk) /\ checked' = checked
       ELSE IF checkExitCriteria(states[a], lastPrices, now, a) # "none"
       THEN deactivateMarket(a)
       ELSE CASE states[a].state = "IDLE" -> handleIdleState(a)
              [] states[a].state = "PLACE_BUY" -> handlePlaceBuyState(a)
              [] states[a].state = "WAIT_BUY_FILL" -> handleWaitBuyFillState(a)
              [] states[a].state = "PLACE_SELL" -> handlePlaceSellState(a)
              [] states[a].state = "ASK_CHASE" -> handleAskChaseState(a)
              [] states[a].state = "WAIT_SELL_FILL" -> handleWaitSellFillState(a)
              [] states[a].state = "COMPLETE" ->
                   /\ Return(a, [ states EXCEPT ![a] = transitionToIdle(states[a]) ], Risk)
                   /\ checked' = checked
              [] states[a].state = "DEACTIVATING" ->
                   Return(a, states, Risk) /\ checked' = checked


(***************************************************************************)
(* The main loop between passes and on the return of a venue call          *)
(***************************************************************************)
Suspended == loop.pc \in { "sleep", "await_post", "await_cancel" }

\* the 500 ms sleep ends and the next pass starts with the first market
Tick ==
    /\ loop.pc = "sleep"
    /\ activeMarkets # {}
    /\ loop' = NextMarket(0, activeMarkets)
    /\ UNCHANGED << states, activeOrders, exposureByMarket, globalNotionalAtRisk,
                    lastPrices, tickSizes, activeMarkets, dryRun, selector, riskCalls, stop, conn, sub, now, venue,
                    userQueue, nextOrderId, checked >>

\* postOrder returns: placeBuy / placeSell record the ActiveOrder on success,
\* then the handler goes on
PostReturns ==
    /\ loop.pc = "await_post"
    /\ LET a == loop.cur
           price == IF loop.side = "BUY" THEN loop.bestBid ELSE loop.bestAsk
           ao == IF loop.resp.ok
                 THEN [ activeOrders EXCEPT ![a] =
                          [ orderId |-> loop.resp.orderId, side |-> loop.side,
                            price |-> price, size |-> loop.size, placedAt |-> now ] ]
                 ELSE activeOrders
       IN  AfterPlace(loop.handler, a, loop.resp.ok, loop.resp.orderId, loop,
                      states, ao, Risk, activeMarkets)
    /\ UNCHANGED << lastPrices, tickSizes, dryRun, selector, riskCalls, stop, conn, sub, now, venue, userQueue, nextOrderId >>

\* cancelOrders returns: cancelOrder deletes the asset's entry on a truthy
\* response, then the caller goes on
CancelReturns ==
    /\ loop.pc = "await_cancel"
    /\ LET a == loop.cur
           ao == IF loop.resp.ok THEN removeActiveOrder(activeOrders, a)
                 ELSE activeOrders
       IN  AfterCancel(loop.handler, a, [ loop EXCEPT !.cancelled = loop.resp.ok ],
                       states, ao, Risk, activeMarkets, lastPrices)
    /\ UNCHANGED << lastPrices, tickSizes, dryRun, selector, riskCalls, stop, conn, sub, now, userQueue >>

(***************************************************************************)
(* User feed: handleFill and handleOrderUpdate, run while the loop is      *)
(* suspended, on the event at the head of the channel                      *)
(***************************************************************************)
handleFill(fill) ==
    LET tokenId == fill.asset
        state == states[tokenId]
        ao == removeActiveOrder(activeOrders, tokenId)
    IN  IF state.state = "NONE"
        THEN
             /\ UNCHANGED << states, activeOrders, exposureByMarket,
                             globalNotionalAtRisk >>
        ELSE IF fill.side = "BUY" /\ state.state = "WAIT_BUY_FILL"
        THEN
             /\ states' = [ states EXCEPT ![tokenId] =
                              transitionToPlaceSell(state, fill.size) ]
             /\ activeOrders' = ao
             /\ UNCHANGED << exposureByMarket, globalNotionalAtRisk >>
        ELSE IF fill.side = "SELL" /\ state.state \in { "ASK_CHASE", "WAIT_SELL_FILL" }
        THEN LET r == recordSellFill(Risk, tokenId, fill.size, fill.price)
             IN
                 /\ states' = [ states EXCEPT ![tokenId] = transitionToComplete(state) ]
                 /\ activeOrders' = ao
                 /\ exposureByMarket' = r.exp
                 /\ globalNotionalAtRisk' = r.glob
        ELSE
             /\ activeOrders' = ao
             /\ UNCHANGED << states, exposureByMarket, globalNotionalAtRisk >>

handleOrderUpdate(order) ==
    LET tokenId == order.asset
        state == states[tokenId]
        isBuyOrder == order.side = "BUY" /\ state.buyOrderId = order.orderId
        isSellOrder == order.side = "SELL" /\ state.sellOrderId = order.orderId
        r == IF state.buyPrice # 0 /\ state.buySize # 0
             THEN cancelBuyOrder(Risk, tokenId, state.buySize, state.buyPrice)
             ELSE Risk
    IN  IF order.status # "CANCELLED" \/ state.state = "NONE"
        THEN
             /\ UNCHANGED << states, activeOrders, exposureByMarket,
                             globalNotionalAtRisk >>
        ELSE IF ~isBuyOrder /\ ~isSellOrder
        THEN
             /\ UNCHANGED << states, activeOrders, exposureByMarket,
                             globalNotionalAtRisk >>
        ELSE IF state.state = "WAIT_BUY_FILL" /\ isBuyOrder
        THEN
             /\ activeOrders' = removeActiveOrder(activeOrders, tokenId)
             /\ exposureByMarket' = r.exp
             /\ globalNotionalAtRisk' = r.glob
             /\ states' = [ states EXCEPT ![tokenId] = transitionToIdle(state) ]
        ELSE
             /\ activeOrders' = removeActiveOrder(activeOrders, tokenId)
             /\ UNCHANGED << states, exposureByMarket, globalNotionalAtRisk >>

DeliverUserEvent ==
    /\ Suspended
    /\ userQueue # << >>
    /\ userQueue' = Tail(userQueue)
    /\ IF Head(userQueue).type = "fill"
       THEN handleFill(Head(userQueue))
       ELSE handleOrderUpdate(Head(userQueue))
    /\ UNCHANGED << lastPrices, tickSizes, activeMarkets, dryRun, selector, riskCalls, stop, conn, sub, now, loop, venue,
                    nextOrderId, checked >>

(***************************************************************************)
(* The venue: a live order is matched in full, or cancelled by someone     *)
(* other than the program; either is announced on the user channel         *)
(***************************************************************************)
VenueFill(o) ==
    /\ Suspended
    /\ o \in venue
    /\ Len(userQueue) < MaxQueue
    /\ venue' = venue \ {o}
    /\ userQueue' = Append(userQueue, FillEvent(o))
    /\ UNCHANGED << states, activeOrders, exposureByMarket, globalNotionalAtRisk,
                    lastPrices, tickSizes, activeMarkets, dryRun, selector, riskCalls, stop, conn, sub, now, loop,
                    nextOrderId, checked >>

VenueCancel(o) ==
    /\ Suspended
    /\ o \in venue
    /\ Len(userQueue) < MaxQueue
    /\ venue' = venue \ {o}
    /\ userQueue' = Append(userQueue, CancelledEvent(o))
    /\ UNCHANGED << states, activeOrders, exposureByMarket, globalNotionalAtRisk,
                    lastPrices, tickSizes, activeMarkets, dryRun, selector, riskCalls, stop, conn, sub, now, loop,
                    nextOrderId, checked >>

(***************************************************************************)
(* Market feed and clock                                                   *)
(***************************************************************************)
\* the top-of-book values the market channel carries in a run of the loop
Quotes == { << 400, 600 >>, << 6000, 6100 >> }

BookMessages ==
    { [ event_type |-> "book", asset_id |-> a, bid |-> q[1], ask |-> q[2], tick |-> 0 ] :
        a \in Assets, q \in Quotes }

MarketFeedMessage(msg) ==
    /\ Suspended
    /\ LET res == handleMessage(lastPrices, tickSizes, msg)
       IN  /\ lastPrices' = res.lp
           /\ tickSizes' = res.ts
    /\ UNCHANGED << states, activeOrders, exposureByMarket, globalNotionalAtRisk,
                    activeMarkets, dryRun, selector, riskCalls, stop, conn, sub, now, loop, venue, userQueue, nextOrderId,
                    checked >>

StartMs == 10000   \* start() waits 10 s for prices before the loop starts

Advance ==
    /\ Suspended
    /\ now < StartMs + MaxClockSteps * ClockStepMs
    /\ now' = now + ClockStepMs
    /\ UNCHANGED << states, activeOrders, exposureByMarket, globalNotionalAtRisk,
                    lastPrices, tickSizes, activeMarkets, dryRun, selector, riskCalls, stop, conn, sub, loop, venue,
                    userQueue, nextOrderId, checked >>

(***************************************************************************)
(* Specification                                                           *)
(***************************************************************************)
Init ==
    /\ states = [ a \in Assets |-> initMarket(0) ]
    /\ activeOrders = [ a \in Assets |-> NoOrder ]
    /\ exposureByMarket = [ a \in Assets |-> NoExposure ]
    /\ globalNotionalAtRisk = 0
    /\ lastPrices = [ a \in Assets |-> NoPrices ]
    /\ tickSizes = [ a \in Assets |-> 0 ]
    /\ activeMarkets = Assets
    /\ dryRun \in BOOLEAN
    /\ selector = NoSelection
    /\ riskCalls = 0
    /\ stop = StopAt("off", 0)
    /\ conn = [ f \in Feeds |-> NoConn ]
    /\ sub = NoSub
    /\ now = StartMs
    /\ loop = LoopAt("sleep", 0)
    /\ venue = {}
    /\ userQueue = << >>
    /\ nextOrderId = 1
    /\ checked = [ a \in Assets |-> NoCheck ]

Next ==
    \/ Tick
    \/ \E a \in Assets : ProcessMarket(a)
    \/ PostReturns
    \/ CancelReturns
    \/ DeliverUserEvent
    \/ \E o \in venue : VenueFill(o)
    \/ \E o \in venue : VenueCancel(o)
    \/ \E msg \in BookMessages : MarketFeedMessage(msg)
    \/ Advance

Spec == Init /\ [][Next]_vars


(***************************************************************************)
(* The market feed alone: any sequence of book, price_change and           *)
(* tick_size_change messages, with absent sides, crossed and wide books    *)
(***************************************************************************)
FeedPrices == { 0, 4000, 5500, 7500, PriceScale }
FeedTicks == { 0, 10, 100, 2 * PriceScale }

FeedMessages ==
    { [ event_type |-> e, asset_id |-> a, bid |-> b, ask |-> k, tick |-> 0 ] :
        e \in { "book", "price_change" }, a \in Assets, b \in FeedPrices,
        k \in FeedPrices }
    \cup
    { [ event_type |-> "tick_size_change", asset_id |-> a, bid |-> 0, ask |-> 0,
        tick |-> t ] : a \in Assets, t \in FeedTicks }

NextFeed == \E msg \in FeedMessages : MarketFeedMessage(msg)

SpecFeed == Init /\ [][NextFeed]_vars

(***************************************************************************)
(* The OrderManager alone: placeBuy, placeSell and cancelOrder called with *)
(* any arguments, crossed and equal prices included, on any asset, one     *)
(* call at a time.  No market is selected and the main loop does not run.  *)
(***************************************************************************)
PlacePrices == { 4000, 5000 }
PlaceSizes == { 500 }

InitPlace ==
    /\ states = [ a \in Assets |-> NoState ]
    /\ activeOrders = [ a \in Assets |-> NoOrder ]
    /\ exposureByMarket = [ a \in Assets |-> NoExposure ]
    /\ globalNotionalAtRisk = 0
    /\ lastPrices = [ a \in Assets |-> NoPrices ]
    /\ tickSizes = [ a \in Assets |-> 0 ]
    /\ activeMarkets = {}
    /\ dryRun \in BOOLEAN
    /\ selector = NoSelection
    /\ riskCalls = 0
    /\ stop = StopAt("off", 0)
    /\ conn = [ f \in Feeds |-> NoConn ]
    /\ sub = NoSub
    /\ now = StartMs
    /\ loop = LoopAt("sleep", 0)
    /\ venue = {}
    /\ userQueue = << >>
    /\ nextOrderId = 1
    /\ checked = [ a \in Assets |-> NoCheck ]

\* the arguments of the next placeBuy / placeSell call
ChoosePlace ==
    /\ loop.pc \in { "sleep", "done" }
    /\ \E a \in Assets, side \in { "BUY", "SELL" }, bestBid \in PlacePrices,
          bestAsk \in PlacePrices, size \in PlaceSizes :
          loop' = [ LoopAt("call", a) EXCEPT !.handler = "CALL", !.side = side,
                                             !.bestBid = bestBid, !.bestAsk = bestAsk,
                                             !.size = size ]
    /\ UNCHANGED << states, activeOrders, exposureByMarket, globalNotionalAtRisk,
                    lastPrices, tickSizes, activeMarkets, dryRun, selector, riskCalls, stop, conn, sub, now, venue,
                    userQueue, nextOrderId, checked >>

CallPlace ==
    /\ loop.pc = "call"
    /\ Place("CALL", loop.cur, loop.side, loop.bestBid, loop.bestAsk, loop.size,
             loop, states, activeOrders, Risk, activeMarkets)
    /\ UNCHANGED << lastPrices, tickSizes, dryRun, selector, riskCalls, stop, conn, sub, now, userQueue >>

CallCancel ==
    /\ loop.pc \in { "sleep", "done" }
    /\ \E a \in Assets :
          Cancel("CALL", a, LoopAt("call", a), states, activeOrders, Risk,
                 activeMarkets)
    /\ UNCHANGED << lastPrices, tickSizes, dryRun, selector, riskCalls, stop, conn, sub, now >>

NextPlace ==
    \/ ChoosePlace
    \/ CallPlace
    \/ PostReturns
    \/ CallCancel
    \/ CancelReturns

SpecPlace == InitPlace /\ [][NextPlace]_vars

(***************************************************************************)
(* The amounts of an order.  buildOrder sends buildAmounts(side, price,    *)
(* size) with the order; they are a function of what the venue's record    *)
(* of the order holds.  Amounts are in micro-units (1e-6); a size of the   *)
(* model has two decimals already, so roundTo(size, 2) leaves it as it is. *)
(***************************************************************************)
\* roundTo(x, 5) of a notional x in 1e-6, in 1e-6 (Math.round: half up)
RoundTo5(x) == ((x + 5) \div 10) * 10

buildAmounts(side, price, size) ==
    LET size2 == size
        notional5 == RoundTo5(price * size2)
    IN  IF side = "BUY"
        THEN [ makerAmount |-> notional5, takerAmount |-> size2 * PriceScale ]
        ELSE [ makerAmount |-> size2 * PriceScale, takerAmount |-> notional5 ]

\* the OrderManager called with sizes that quantize to nothing as well
QuantizeSizes == PlaceSizes \cup { 0 }

ChooseQuantize ==
    /\ loop.pc \in { "sleep", "done" }
    /\ \E a \in Assets, side \in { "BUY", "SELL" }, bestBid \in PlacePrices,
          bestAsk \in PlacePrices, size \in QuantizeSizes :
          loop' = [ LoopAt("call", a) EXCEPT !.handler = "CALL", !.side = side,
                                             !.bestBid = bestBid, !.bestAsk = bestAsk,
                                             !.size = size ]
    /\ UNCHANGED << states, activeOrders, exposureByMarket, globalNotionalAtRisk,
                    lastPrices, tickSizes, activeMarkets, dryRun, selector, riskCalls,
                    stop, conn, sub, now, venue, userQueue, nextOrderId, checked >>

NextQuantize ==
    \/ ChooseQuantize
    \/ CallPlace
    \/ PostReturns
    \/ CallCancel
    \/ CancelReturns

SpecQuantize == InitPlace /\ [][NextQuantize]_vars

(***************************************************************************)
(* The RiskManager alone: any sequence of recordBuyOrder, recordSellFill,  *)
(* cancelBuyOrder and cleanMarket on any asset, with sizes and prices from *)
(* RiskSizes and RiskPrices, MaxRiskCalls calls in a run; and, at the end  *)
(* of the run, canPlaceBuy called with a size, price and spread from       *)
(* CheckSizes, CheckPrices and CheckSpreads (a price above 1 included: the *)
(* function takes any number).                                             *)
(***************************************************************************)
RiskSizes == { 1, 20000 }
RiskPrices == { 1, 7000 }
MaxRiskCalls == 4
CheckSizes == { 50, 199, 500, 5001 }
CheckPrices == { 400, PriceScale, 4 * PriceScale }
CheckSpreads == { 50, 200 }

RiskCall(r) ==
    /\ loop.pc = "sleep"
    /\ riskCalls < MaxRiskCalls
    /\ riskCalls' = riskCalls + 1
    /\ exposureByMarket' = r.exp
    /\ globalNotionalAtRisk' = r.glob
    /\ UNCHANGED << states, activeOrders, lastPrices, tickSizes, activeMarkets,
                    dryRun, selector, stop, conn, sub, now, loop, venue, userQueue, nextOrderId, checked >>

RecordBuy(a, size, price) == RiskCall(recordBuyOrder(Risk, a, size, price))

RecordSellFill(a, size, price) == RiskCall(recordSellFill(Risk, a, size, price))

CancelBuy(a, size, price) == RiskCall(cancelBuyOrder(Risk, a, size, price))

CleanMarket(a) == RiskCall(cleanMarket(Risk, a))

\* canPlaceBuy(a, size, price, spread * 100): the answer is kept in error
CanPlaceBuyCall(a, size, price, spread) ==
    /\ loop.pc = "sleep"
    /\ loop' = [ LoopAt("done", a) EXCEPT
                   !.handler = "canPlaceBuy", !.size = size, !.bestBid = price,
                   !.bestAsk = price + spread,
                   !.error = canPlaceBuy(Risk, a, size, price, spread) ]
    /\ UNCHANGED << states, activeOrders, exposureByMarket, globalNotionalAtRisk,
                    lastPrices, tickSizes, activeMarkets, dryRun, selector, riskCalls, stop, conn, sub, now,
                    venue, userQueue, nextOrderId, checked >>

NextRisk ==
    \E a \in Assets :
      \/ \E size \in CheckSizes, price \in CheckPrices, spread \in CheckSpreads :
            CanPlaceBuyCall(a, size, price, spread)
      \/ \E size \in RiskSizes, price \in RiskPrices : RecordBuy(a, size, price)
      \/ \E size \in RiskSizes, price \in RiskPrices : RecordSellFill(a, size, price)
      \/ \E size \in RiskSizes, price \in RiskPrices : CancelBuy(a, size, price)
      \/ CleanMarket(a)

SpecRisk == InitPlace /\ [][NextRisk]_vars

(***************************************************************************)
(* One selected market, real mode, and a loop that keeps running: the      *)
(* while (this.running) loop takes its next pass after every sleep, every  *)
(* awaited venue call returns, and the user channel delivers what it was   *)
(* sent.  Feed, venue fills and cancels and the clock stay unconstrained.  *)
(***************************************************************************)
InitOne ==
    /\ states = [ a \in Assets |-> IF a = 1 THEN initMarket(0) ELSE NoState ]
    /\ activeOrders = [ a \in Assets |-> NoOrder ]
    /\ exposureByMarket = [ a \in Assets |-> NoExposure ]
    /\ globalNotionalAtRisk = 0
    /\ lastPrices = [ a \in Assets |-> NoPrices ]
    /\ tickSizes = [ a \in Assets |-> 0 ]
    /\ activeMarkets = { 1 }
    /\ dryRun = FALSE
    /\ selector = NoSelection
    /\ riskCalls = 0
    /\ stop = StopAt("off", 0)
    /\ conn = [ f \in Feeds |-> NoConn ]
    /\ sub = NoSub
    /\ now = StartMs
    /\ loop = LoopAt("sleep", 0)
    /\ venue = {}
    /\ userQueue = << >>
    /\ nextOrderId = 1
    /\ checked = [ a \in Assets |-> NoCheck ]

SpecLoop ==
    /\ InitOne
    /\ [][Next]_vars
    /\ WF_vars(Tick)
    /\ WF_vars(\E a \in Assets : ProcessMarket(a))
    /\ WF_vars(PostReturns)
    /\ WF_vars(CancelReturns)
    /\ WF_vars(DeliverUserEvent)

(***************************************************************************)
(* One market with a finer clock and two books whose spread is exactly     *)
(* MIN_SPREAD_CENTS / 100, for the exit criteria                           *)
(***************************************************************************)
ExitQuotes == Quotes \cup { << 400, 400 + MIN_SPREAD >>, << 210, 210 + MIN_SPREAD >> }
ExitClockStepMs == 10000
MaxExitClockSteps == 2

ExitBookMessages ==
    { [ event_type |-> "book", asset_id |-> 1, bid |-> q[1], ask |-> q[2], tick |-> 0 ] :
        q \in ExitQuotes }

AdvanceExit ==
    /\ Suspended
    /\ now < StartMs + MaxExitClockSteps * ExitClockStepMs
    /\ now' = now + ExitClockStepMs
    /\ UNCHANGED << states, activeOrders, exposureByMarket, globalNotionalAtRisk,
                    lastPrices, tickSizes, activeMarkets, dryRun, selector, riskCalls, stop, conn, sub, loop, venue,
                    userQueue, nextOrderId, checked >>

NextExit ==
    \/ Tick
    \/ \E a \in Assets : ProcessMarket(a)
    \/ PostReturns
    \/ CancelReturns
    \/ DeliverUserEvent
    \/ \E o \in venue : VenueFill(o)
    \/ \E o \in venue : VenueCancel(o)
    \/ \E msg \in ExitBookMessages : MarketFeedMessage(msg)
    \/ AdvanceExit

SpecExit == InitOne /\ [][NextExit]_vars

(***************************************************************************)
(* Shutdown.  A signal runs stop() while the main loop is suspended:       *)
(* running becomes false and cancelOrder is awaited for each market of the *)
(* active set in turn, the loop going on meanwhile; when stop() returns    *)
(* the feeds are closed and the process exits.  One market, real mode; the *)
(* venue honours every cancel that stop() sends.                           *)
(***************************************************************************)
\* stop() after the market prev, up to its next venue call or to its end:
\* the ActiveOrders it leaves and where it is then
RECURSIVE StopFrom(_, _)
StopFrom(prev, ao) ==
    IF ~\E b \in activeMarkets : b > prev
    THEN [ ao |-> ao, stop |-> StopAt("done", 0) ]
    ELSE LET a == CHOOSE b \in activeMarkets :
                    b > prev /\ \A c \in activeMarkets : c > prev => b <= c
         IN  IF ao[a].orderId = 0 THEN StopFrom(a, ao)
             ELSE IF dryRun THEN StopFrom(a, removeActiveOrder(ao, a))
             ELSE [ ao |-> ao, stop |-> StopAt("await_cancel", a) ]

\* the maps stop() leaves, and its clob.cancelOrders call if it makes one
StopCommit(res) ==
    /\ activeOrders' = res.ao
    /\ IF res.stop.pc = "await_cancel"
       THEN LET orderId == res.ao[res.stop.cur].orderId
                live == { o \in venue : o.orderId = orderId }
            IN  /\ stop' = [ res.stop EXCEPT !.resp = [ ok |-> TRUE, orderId |-> orderId ] ]
                /\ venue' = venue \ live
                /\ IF live # {}
                   THEN /\ Len(userQueue) < MaxQueue
                        /\ userQueue' =
                             Append(userQueue, CancelledEvent(CHOOSE o \in live : TRUE))
                   ELSE userQueue' = userQueue
       ELSE /\ stop' = res.stop
            /\ UNCHANGED << venue, userQueue >>
    /\ UNCHANGED << states, exposureByMarket, globalNotionalAtRisk, lastPrices,
                    tickSizes, activeMarkets, dryRun, selector, riskCalls, conn, sub, now, loop,
                    nextOrderId, checked >>

\* SIGINT / SIGTERM: stop() starts
Stop ==
    /\ stop.pc = "off"
    /\ Suspended
    /\ StopCommit(StopFrom(0, activeOrders))

\* the cancelOrders call of stop() returns
StopCancelReturns ==
    /\ stop.pc = "await_cancel"
    /\ Suspended
    /\ StopCommit(StopFrom(stop.cur,
                           IF stop.resp.ok THEN removeActiveOrder(activeOrders, stop.cur)
                           ELSE activeOrders))

NextStop ==
    \/ stop.pc = "off" /\ Tick
    \/ stop.pc # "done" /\ \E a \in Assets : ProcessMarket(a)
    \/ stop.pc # "done" /\ PostReturns
    \/ stop.pc # "done" /\ CancelReturns
    \/ stop.pc # "done" /\ DeliverUserEvent
    \/ stop.pc # "done" /\ \E msg \in BookMessages : MarketFeedMessage(msg)
    \/ \E o \in venue : VenueFill(o)
    \/ \E o \in venue : VenueCancel(o)
    \/ Advance
    \/ Stop
    \/ StopCancelReturns

SpecStop == InitOne /\ [][NextStop]_vars

(***************************************************************************)
(* The WebSocket connections of the two feeds.  connect() opens a socket;  *)
(* the socket then opens or fails (error, then close); an open socket can  *)
(* be lost (close); the close handler schedules the next connect().  The   *)
(* market maker calls subscribe() for each selected market in one          *)
(* synchronous stretch of start(), i.e. before the first socket answers;   *)
(* subscribeAsset / unsubscribeAsset can be called at any time.            *)
(***************************************************************************)
maxReconnectAttempts == 10

Min(x, y) == IF x <= y THEN x ELSE y

\* Math.min(1000 * Math.pow(2, reconnectAttempts - 1), 30000)
ReconnectDelay(reconnectAttempts) ==
    IF reconnectAttempts = 0 THEN 500
    ELSE Min(1000 * 2 ^ (reconnectAttempts - 1), 30000)

\* connect() / connect(tokenIds)
connect(c) ==
    IF c.isConnecting THEN c
    ELSE [ c EXCEPT !.isConnecting = TRUE, !.reconnectAttempts = @ + 1,
                    !.reconnectTimeout = 0, !.ws = "connecting", !.tries = @ + 1 ]

\* the close handler with <= in place of <, to show what C25 owes to the
\* strict comparison
onCloseNonStrict(c) ==
    LET c1 == [ c EXCEPT !.isConnecting = FALSE, !.ws = "closed" ]
    IN  IF c.reconnectAttempts <= maxReconnectAttempts
        THEN [ c1 EXCEPT !.reconnectTimeout = ReconnectDelay(c.reconnectAttempts) ]
        ELSE c1

\* ws.on("close")
onClose(c) ==
    LET c1 == [ c EXCEPT !.isConnecting = FALSE, !.ws = "closed" ]
    IN  IF c.reconnectAttempts < maxReconnectAttempts
        THEN [ c1 EXCEPT !.reconnectTimeout = ReconnectDelay(c.reconnectAttempts) ]
        ELSE c1

\* ws.on("open"), the part common to the two feeds
onOpen(c) ==
    [ c EXCEPT !.isConnecting = FALSE, !.reconnectAttempts = 0, !.ws = "open",
               !.tries = 0 ]

\* flushSubscription with the token ids of the last subscribe() call in
\* place of the subscribed set, to show what C26 owes to that set
flushSubscriptionLastCall(sb, c) ==
    IF c.ws # "open" THEN sb
    ELSE [ sb EXCEPT !.frame = [ sent |-> TRUE, assets_ids |-> sb.currentTokenIds ] ]

\* flushSubscription(), c being the state of the market socket
flushSubscription(sb, c) ==
    IF c.ws # "open" THEN sb
    ELSE [ sb EXCEPT !.frame = [ sent |-> TRUE, assets_ids |-> sb.subscribed ] ]

ConnUnchanged ==
    UNCHANGED << states, activeOrders, exposureByMarket, globalNotionalAtRisk,
                 lastPrices, tickSizes, activeMarkets, dryRun, selector, riskCalls, stop, now, loop,
                 venue, userQueue, nextOrderId, checked >>

\* MarketMaker.connectWebSockets: userFeed.connect()
UserConnect ==
    /\ conn["user"].ws = "none"
    /\ conn' = [ conn EXCEPT !["user"] = connect(@) ]
    /\ UNCHANGED sub
    /\ ConnUnchanged

\* marketFeed.subscribe([tokenId], onUpdate), called by start()
Subscribe(tokenId) ==
    /\ \/ conn["market"].ws = "none"
       \/ conn["market"].ws = "connecting" /\ conn["market"].tries = 1
    /\ sub' = [ sub EXCEPT !.subscribed = @ \cup { tokenId }, !.subTimer = TRUE,
                           !.currentTokenIds = { tokenId },
                           !.wanted = @ \cup { tokenId } ]
    /\ conn' = [ conn EXCEPT !["market"] = connect(@) ]
    /\ ConnUnchanged

SubscribeAsset(id) ==
    /\ sub' = [ sub EXCEPT !.subscribed = @ \cup { id }, !.subTimer = TRUE,
                           !.wanted = @ \cup { id } ]
    /\ UNCHANGED conn
    /\ ConnUnchanged

UnsubscribeAsset(id) ==
    /\ sub' = [ sub EXCEPT !.subscribed = @ \ { id }, !.subTimer = TRUE,
                           !.wanted = @ \ { id } ]
    /\ UNCHANGED conn
    /\ ConnUnchanged

\* the 75 ms timer of subscribeAsset / unsubscribeAsset fires
SubTimerFires ==
    /\ sub.subTimer
    /\ sub' = flushSubscription([ sub EXCEPT !.subTimer = FALSE ], conn["market"])
    /\ UNCHANGED conn
    /\ ConnUnchanged

\* the socket of feed f opens
Open(f) ==
    /\ conn[f].ws = "connecting"
    /\ conn' = [ conn EXCEPT ![f] = onOpen(@) ]
    /\ sub' = IF f = "market"
              THEN flushSubscription([ sub EXCEPT !.frame = NoFrame ], conn'[f])
              ELSE sub
    /\ ConnUnchanged

\* the connection attempt of feed f fails: error, then close
Fail(f) ==
    /\ conn[f].ws = "connecting"
    /\ conn' = [ conn EXCEPT ![f] = onClose([ @ EXCEPT !.isConnecting = FALSE ]) ]
    /\ UNCHANGED sub
    /\ ConnUnchanged

\* the open socket of feed f is lost
Lose(f) ==
    /\ conn[f].ws = "open"
    /\ conn' = [ conn EXCEPT ![f] = onClose(@) ]
    /\ sub' = IF f = "market" THEN [ sub EXCEPT !.frame = NoFrame ] ELSE sub
    /\ ConnUnchanged

\* the reconnection timer of feed f fires
ReconnectTimerFires(f) ==
    /\ conn[f].reconnectTimeout # 0
    /\ conn' = [ conn EXCEPT ![f] = connect(@) ]
    /\ UNCHANGED sub
    /\ ConnUnchanged

NextConn ==
    \/ UserConnect
    \/ \E a \in Assets : Subscribe(a)
    \/ \E a \in Assets : SubscribeAsset(a)
    \/ \E a \in Assets : UnsubscribeAsset(a)
    \/ SubTimerFires
    \/ \E f \in Feeds : Open(f)
    \/ \E f \in Feeds : Fail(f)
    \/ \E f \in Feeds : Lose(f)
    \/ \E f \in Feeds : ReconnectTimerFires(f)

SpecConn == InitPlace /\ [][NextConn]_vars

(***************************************************************************)
(* The feeds with disconnect(), which stop() calls on both: ws.close() is  *)
(* asked of an open socket, whose close event comes later                  *)
(***************************************************************************)
MaxDisconnectTries == 2   \* disconnect() is not called after more failed attempts

\* disconnect()
disconnect(c) ==
    [ c EXCEPT !.reconnectTimeout = 0,
               !.ws = IF c.ws = "open" THEN "closing" ELSE @,
               !.isConnecting = FALSE,
               !.reconnectAttempts = 0 ]

Disconnect(f) ==
    /\ conn[f].ws \notin { "none", "closing" }
    /\ conn[f].tries <= MaxDisconnectTries
    /\ conn' = [ conn EXCEPT ![f] = disconnect(@) ]
    /\ UNCHANGED sub
    /\ ConnUnchanged

\* the close event of the socket that ws.close() was asked of
Closed(f) ==
    /\ conn[f].ws = "closing"
    /\ conn' = [ conn EXCEPT ![f] = onClose(@) ]
    /\ sub' = IF f = "market" THEN [ sub EXCEPT !.frame = NoFrame ] ELSE sub
    /\ ConnUnchanged

NextDisconnect ==
    \/ NextConn
    \/ \E f \in Feeds : Disconnect(f)
    \/ \E f \in Feeds : Closed(f)

SpecDisconnect == InitPlace /\ [][NextDisconnect]_vars

(***************************************************************************)
(* One market and books the feed caches although the handlers of           *)
(* WAIT_BUY_FILL and WAIT_SELL_FILL call them aberrant: a spread of 0.56   *)
(* and an ask of 0.9995                                                    *)
(***************************************************************************)
AberrantQuotes == Quotes \cup { << 400, 6000 >>, << 9000, 9995 >> }

AberrantBookMessages ==
    { [ event_type |-> "book", asset_id |-> 1, bid |-> q[1], ask |-> q[2], tick |-> 0 ] :
        q \in AberrantQuotes }

NextAberrant ==
    \/ Tick
    \/ \E a \in Assets : ProcessMarket(a)
    \/ PostReturns
    \/ CancelReturns
    \/ DeliverUserEvent
    \/ \E o \in venue : VenueFill(o)
    \/ \E o \in venue : VenueCancel(o)
    \/ \E msg \in AberrantBookMessages : MarketFeedMessage(msg)
    \/ Advance

SpecAberrant == InitOne /\ [][NextAberrant]_vars

(***************************************************************************)
(* One market whose tick size the feed announces (0.001 or 0.01) and whose *)
(* best bid also moves by half a cent, for the replace rule of a BUY       *)
(***************************************************************************)
TickQuotes == Quotes \cup { << 450, 650 >> }
AnnouncedTicks == { PriceScale \div 1000, PriceScale \div 100 }

TickFeedMessages ==
    { [ event_type |-> "book", asset_id |-> 1, bid |-> q[1], ask |-> q[2], tick |-> 0 ] :
        q \in TickQuotes }
    \cup
    { [ event_type |-> "tick_size_change", asset_id |-> 1, bid |-> 0, ask |-> 0,
        tick |-> t ] : t \in AnnouncedTicks }

NextTickSize ==
    \/ Tick
    \/ \E a \in Assets : ProcessMarket(a)
    \/ PostReturns
    \/ CancelReturns
    \/ DeliverUserEvent
    \/ \E msg \in TickFeedMessages : MarketFeedMessage(msg)
    \/ \E o \in venue : VenueFill(o)
    \/ \E o \in venue : VenueCancel(o)
    \/ Advance

SpecTickSize == InitOne /\ [][NextTickSize]_vars

(***************************************************************************)
(* One market and a clock that advances by less than the ask-chase window, *)
(* for the length of the chase                                             *)
(***************************************************************************)
ChaseClockStepMs == 5000
MaxChaseClockSteps == 2

ChaseBookMessages ==
    { [ event_type |-> "book", asset_id |-> 1, bid |-> q[1], ask |-> q[2], tick |-> 0 ] :
        q \in Quotes }

AdvanceChase ==
    /\ Suspended
    /\ now < StartMs + MaxChaseClockSteps * ChaseClockStepMs
    /\ now' = now + ChaseClockStepMs
    /\ UNCHANGED << states, activeOrders, exposureByMarket, globalNotionalAtRisk,
                    lastPrices, tickSizes, activeMarkets, dryRun, selector, riskCalls, stop, conn,
                    sub, loop, venue, userQueue, nextOrderId, checked >>

NextChase ==
    \/ Tick
    \/ \E a \in Assets : ProcessMarket(a)
    \/ PostReturns
    \/ CancelReturns
    \/ DeliverUserEvent
    \/ \E msg \in ChaseBookMessages : MarketFeedMessage(msg)
    \/ \E o \in venue : VenueFill(o)
    \/ \E o \in venue : VenueCancel(o)
    \/ AdvanceChase

SpecChase == InitOne /\ [][NextChase]_vars

(***************************************************************************)
(* MarketSelector.  A candidate is what evaluateMarket returns for one     *)
(* market: [ tokenId, conditionId, score, skip ], skip standing for a      *)
(* skipReason being set.  selectMarkets is taken from the point where the  *)
(* candidates have been evaluated; MAX_MARKETS and MAX_MARKETS_PER_EVENT   *)
(* come from the environment.                                              *)
(***************************************************************************)
MaxCandidates == 3      \* markets evaluated in one selection
NumConditions == 2      \* distinct condition ids among them
MaxScore == 3           \* scores are 1 .. MaxScore

MarketCaps == { 2, 3 }  \* MAX_MARKETS: README and default
EventCaps == { 1, 2 }   \* MAX_MARKETS_PER_EVENT: default and one more

\* Array.prototype.sort((a, b) => b.score - a.score): descending, stable
RECURSIVE SortByScore(_)
SortByScore(markets) ==
    IF Len(markets) = 0 THEN markets
    ELSE LET init == SortByScore(SubSeq(markets, 1, Len(markets) - 1))
             c == markets[Len(markets)]
             k == Cardinality({ i \in 1 .. Len(init) : init[i].score >= c.score })
         IN  SubSeq(init, 1, k) \o << c >> \o SubSeq(init, k + 1, Len(init))

\* the keys of the Map byEvent in insertion order
RECURSIVE EventOrder(_)
EventOrder(markets) ==
    IF Len(markets) = 0 THEN << >>
    ELSE LET init == EventOrder(SubSeq(markets, 1, Len(markets) - 1))
             e == markets[Len(markets)].conditionId
         IN  IF \E i \in 1 .. Len(init) : init[i] = e THEN init ELSE Append(init, e)

\* the loop over byEvent.entries() from the event at position i on, each
\* event giving its first cap + 1 markets: a limit that is off by one, to
\* show what C29 owes to the slice
RECURSIVE TakeBestOffByOne(_, _, _, _)
TakeBestOffByOne(markets, events, i, cap) ==
    IF i > Len(events) THEN << >>
    ELSE LET eventMarkets ==
                 SortByScore(SelectSeq(markets, LAMBDA c : c.conditionId = events[i]))
             best == SubSeq(eventMarkets, 1, Min(cap + 1, Len(eventMarkets)))
         IN  best \o TakeBestOffByOne(markets, events, i + 1, cap)

applyEventLimitOffByOne(markets, cap) ==
    TakeBestOffByOne(markets, EventOrder(markets), 1, cap)

\* the loop over byEvent.entries() from the event at position i on
RECURSIVE TakeBest(_, _, _, _)
TakeBest(markets, events, i, cap) ==
    IF i > Len(events) THEN << >>
    ELSE LET eventMarkets ==
                 SortByScore(SelectSeq(markets, LAMBDA c : c.conditionId = events[i]))
             best == SubSeq(eventMarkets, 1, Min(cap, Len(eventMarkets)))
         IN  best \o TakeBest(markets, events, i + 1, cap)

applyEventLimit(markets, cap) == TakeBest(markets, EventOrder(markets), 1, cap)

\* candidates.filter(c => !c.skipReason)
Eligible(candidates) == SelectSeq(candidates, LAMBDA c : ~c.skip)

selectMarkets(candidates, maxMarkets, maxPerEvent) ==
    LET eligible == Eligible(candidates)
    IN  IF Len(eligible) = 0 THEN << >>
        ELSE LET selected == applyEventLimit(SortByScore(eligible), maxPerEvent)
             IN  SubSeq(selected, 1, Min(maxMarkets, Len(selected)))

\* what evaluateMarket can give for the market at position i
Candidates(i) ==
    { [ tokenId |-> i, conditionId |-> e, score |-> sc, skip |-> sk ] :
        e \in 1 .. NumConditions, sc \in 1 .. MaxScore, sk \in BOOLEAN }

CandidateLists ==
    UNION { { cs \in [ 1 .. n -> UNION { Candidates(i) : i \in 1 .. n } ] :
                \A i \in 1 .. n : cs[i].tokenId = i } : n \in 0 .. MaxCandidates }

\* MarketSelector.selectMarkets(), called once by start()
SelectMarkets(candidates, maxMarkets, maxPerEvent) ==
    /\ ~selector.done
    /\ selector' = [ candidates |-> candidates, MAX_MARKETS |-> maxMarkets,
                     MAX_MARKETS_PER_EVENT |-> maxPerEvent,
                     final |-> selectMarkets(candidates, maxMarkets, maxPerEvent),
                     done |-> TRUE ]
    /\ UNCHANGED << states, activeOrders, exposureByMarket, globalNotionalAtRisk,
                    lastPrices, tickSizes, activeMarkets, dryRun, riskCalls, stop, conn,
                    sub, now, loop, venue, userQueue, nextOrderId, checked >>

NextSelect ==
    \E candidates \in CandidateLists, maxMarkets \in MarketCaps, maxPerEvent \in EventCaps :
        SelectMarkets(candidates, maxMarkets, maxPerEvent)

SpecSelect == InitPlace /\ [][NextSelect]_vars

(***************************************************************************)
(* MarketSelector.evaluateMarket.  A fetched market is                     *)
(* [ conditionId, volume24hrClob, hoursToClose, yes, no ], each outcome    *)
(* being [ ws, book ]: the prices the MarketFeed has cached for its token  *)
(* and what the REST order book answers ([ bid, ask, depth ], depth being  *)
(* what calculateDepth makes of its levels); 0 is an absent price.  The    *)
(* token of YES is 1, that of NO is 2.  Spreads are JS numbers, counted    *)
(* in units of 2^-PriceUnitBits; depth and volume are whole USDC, hours    *)
(* are whole, scores are in 1e-4.                                          *)
(***************************************************************************)
MIN_VOLUME_24H_USD == 1000
MIN_DEPTH_TOP2_USD == 300
HOURS_TO_CLOSE_MIN == 24
MAX_SPREAD == (50 * PriceScale) \div 100      \* MAX_SPREAD_CENTS / 100
WsDepth == 1000
NoEndDateHours == 999

\* ask - bid as the code computes it, of either sign
SpreadOf(bid, ask) ==
    IF ask >= bid THEN FloatSub(PriceFloat[ask], PriceFloat[bid])
    ELSE 0 - FloatSub(PriceFloat[bid], PriceFloat[ask])

\* Math.log10(x) in 1e-4, for the depths and volumes the model draws
Log10 == [ x \in { 300, 301, 1001, 5001 } |->
             CASE x = 300 -> 24771 [] x = 301 -> 24786
               [] x = 1001 -> 30004 [] x = 5001 -> 36991 ]

calculateScore(candidate) ==
    LET spreadScore ==      \* spread * 1000, 10^7 being 78125 * 2^7
            ((candidate.spread \div 2 ^ (PriceUnitBits - 15)) * 78125) \div 2 ^ 8
        depthScore == Log10[candidate.depth + 1] * 100
        volumeScore == Log10[candidate.volume24h + 1] * 50
        timeScore == Min((candidate.hoursToClose * PriceScale) \div 24, 30 * PriceScale)
    IN  (spreadScore * 4 + depthScore * 3 + volumeScore * 2 + timeScore) \div 10

\* applyFilters: the skip reason, "none" for undefined
applyFilters(candidate) ==
    IF candidate.spread < PriceFloat[MIN_SPREAD] THEN "spread_too_small"
    ELSE IF candidate.spread > PriceFloat[MAX_SPREAD] THEN "spread_too_large"
    ELSE IF candidate.volume24h < MIN_VOLUME_24H_USD THEN "volume_low"
    ELSE IF candidate.depth < MIN_DEPTH_TOP2_USD THEN "depth_low"
    ELSE IF candidate.hoursToClose < HOURS_TO_CLOSE_MIN THEN "closing_soon"
    ELSE IF candidate.spread * (MIN_NOTIONAL_PER_ORDER_USDC \div UsdcScale)
              < PriceFloat[MIN_EXPECTED_PROFIT_USDC \div SizeScale]
    THEN "expected_profit_low"
    ELSE "none"

\* the top of book evaluateMarket uses for one outcome: the cached prices
\* when both are set, else the REST book
TopOf(outcome) ==
    IF outcome.ws.bestBid # 0 /\ outcome.ws.bestAsk # 0
    THEN [ bid |-> outcome.ws.bestBid, ask |-> outcome.ws.bestAsk, depth |-> WsDepth ]
    ELSE outcome.book

\* (bid && ask) ? ask - bid : null, 0 for null
SpreadOrNull(top) ==
    IF top.bid # 0 /\ top.ask # 0 THEN SpreadOf(top.bid, top.ask) ELSE 0

\* the candidate evaluateMarket builds for the chosen outcome
Candidate(market, side, top, spread) ==
    LET c == [ tokenId |-> IF side = "YES" THEN 1 ELSE 2, side |-> side,
               conditionId |-> market.conditionId,
               volume24h |-> market.volume24hrClob, spread |-> spread,
               depth |-> top.depth, hoursToClose |-> market.hoursToClose,
               score |-> 0, skipReason |-> "none", skip |-> FALSE ]
        skipReason == applyFilters(c)
    IN  IF skipReason # "none"
        THEN [ c EXCEPT !.skipReason = skipReason, !.skip = TRUE ]
        ELSE [ c EXCEPT !.score = calculateScore(c) ]

\* evaluateMarket with the comparison of the two spreads reversed, to show
\* what C32 owes to it
evaluateMarketSmaller(market) ==
    LET yes == TopOf(market.yes)
        no == TopOf(market.no)
        yesSpread == SpreadOrNull(yes)
        noSpread == SpreadOrNull(no)
    IN  IF yesSpread = 0 /\ noSpread = 0 THEN << >>
        ELSE IF yesSpread # 0 /\ noSpread # 0
        THEN IF yesSpread <= noSpread
             THEN << Candidate(market, "YES", yes, yesSpread) >>
             ELSE << Candidate(market, "NO", no, noSpread) >>
        ELSE IF yesSpread # 0 THEN << Candidate(market, "YES", yes, yesSpread) >>
        ELSE << Candidate(market, "NO", no, noSpread) >>

\* evaluateMarket: no candidate (null) or one
evaluateMarket(market) ==
    LET yes == TopOf(market.yes)
        no == TopOf(market.no)
        yesSpread == SpreadOrNull(yes)
        noSpread == SpreadOrNull(no)
    IN  IF yesSpread = 0 /\ noSpread = 0 THEN << >>
        ELSE IF yesSpread # 0 /\ noSpread # 0
        THEN IF yesSpread >= noSpread
             THEN << Candidate(market, "YES", yes, yesSpread) >>
             ELSE << Candidate(market, "NO", no, noSpread) >>
        ELSE IF yesSpread # 0 THEN << Candidate(market, "YES", yes, yesSpread) >>
        ELSE << Candidate(market, "NO", no, noSpread) >>

NoTop == [ bid |-> 0, ask |-> 0, depth |-> 0 ]

\* what the feed and the REST book can say of one outcome
Outcomes ==
    { [ ws |-> NoPrices, book |-> NoTop ] }
    \cup { [ ws |-> [ bestBid |-> q[1], bestAsk |-> q[2] ], book |-> NoTop ] :
             q \in ExitQuotes }
    \cup { [ ws |-> NoPrices, book |-> [ bid |-> b[1], ask |-> b[2], depth |-> b[3] ] ] :
             b \in { << 4000, 4000 + MAX_SPREAD, 300 >>, << 4000, 4100 + MAX_SPREAD, 300 >>,
                     << 400, 600, 299 >>, << 600, 400, 300 >>, << 400, 400, 300 >> } }

FetchedMarkets ==
    { [ conditionId |-> 1, volume24hrClob |-> v, hoursToClose |-> h, yes |-> y, no |-> n ] :
        v \in { 999, 1000, 5000 }, h \in { 23, 24, NoEndDateHours },
        y \in Outcomes, n \in Outcomes }

\* selectMarkets() when the directory answers with one market
SelectOne(market, maxMarkets, maxPerEvent) ==
    /\ ~selector.done
    /\ LET candidates == IF market.volume24hrClob >= MIN_VOLUME_24H_USD
                         THEN evaluateMarket(market) ELSE << >>
       IN  selector' = [ candidates |-> candidates, MAX_MARKETS |-> maxMarkets,
                         MAX_MARKETS_PER_EVENT |-> maxPerEvent,
                         final |-> selectMarkets(candidates, maxMarkets, maxPerEvent),
                         done |-> TRUE, market |-> market ]
    /\ UNCHANGED << states, activeOrders, exposureByMarket, globalNotionalAtRisk,
                    lastPrices, tickSizes, activeMarkets, dryRun, riskCalls, stop, conn,
                    sub, now, loop, venue, userQueue, nextOrderId, checked >>

NextEvaluate ==
    \E market \in FetchedMarkets, maxMarkets \in MarketCaps, maxPerEvent \in EventCaps :
        SelectOne(market, maxMarkets, maxPerEvent)

SpecEvaluate == InitPlace /\ [][NextEvaluate]_vars

(***************************************************************************)
(* Properties                                                              *)
(***************************************************************************)
\* the step is the user feed handling the event at the head of the channel
Delivers(type) ==
    /\ userQueue # << >>
    /\ userQueue' = Tail(userQueue)
    /\ Head(userQueue).type = type

ProgramUnchanged ==
    UNCHANGED << states, activeOrders, exposureByMarket, globalNotionalAtRisk >>

LiveAt(a) == { o \in venue : o.asset = a }

\* C1 (side-lock, I1): for every asset at most one order of the system is
\* live at the venue (the active-order map holds at most one entry per asset
\* by construction), under every interleaving.
C1_SideLock == \A a \in Assets : Cardinality(LiveAt(a)) <= 1

RECURSIVE SumNotional(_)
SumNotional(S) ==
    IF S = {} THEN 0
    ELSE LET a == CHOOSE x \in S : TRUE
         IN  exposureByMarket[a].notionalUsdc + SumNotional(S \ {a})

\* C2 (global cap, I2): the sum over all assets of the committed notional
\* recorded by the RiskManager is at most MAX_NOTIONAL_AT_RISK_USDC.
C2_GlobalCap == SumNotional(Assets) <= MAX_NOTIONAL_AT_RISK_USDC

\* C3 (per-market caps, I3): for every asset, committed shares are at most
\* MAX_SHARES_PER_MARKET and committed notional at most MAX_USDC_PER_MARKET,
\* also after a buy replace.
C3_MarketCaps ==
    \A a \in Assets :
        /\ exposureByMarket[a].shares <= MAX_SHARES_PER_MARKET
        /\ exposureByMarket[a].notionalUsdc <= MAX_USDC_PER_MARKET

\* C4 (external cancel of the live buy): when a CANCELLED event for the
\* recorded buy order id is handled in WAIT_BUY_FILL, the ActiveOrder is
\* removed, that buy's exposure is released and the market ends in IDLE.
C4_ExternalCancel ==
    [][ \A a \in Assets :
          ( /\ Delivers("order")
            /\ Head(userQueue).status = "CANCELLED"
            /\ Head(userQueue).asset = a
            /\ Head(userQueue).side = "BUY"
            /\ states[a].state = "WAIT_BUY_FILL"
            /\ Head(userQueue).orderId = states[a].buyOrderId )
          => ( /\ activeOrders'[a] = NoOrder
               /\ exposureByMarket' =
                    cancelBuyOrder(Risk, a, states[a].buySize, states[a].buyPrice).exp
               /\ globalNotionalAtRisk' =
                    cancelBuyOrder(Risk, a, states[a].buySize, states[a].buyPrice).glob
               /\ states'[a].state = "IDLE" ) ]_vars

\* C5 (stale cancel): in WAIT_BUY_FILL, ASK_CHASE and WAIT_SELL_FILL, a
\* CANCELLED event for an order the system has since replaced (the asset's
\* ActiveOrder is another, later order) leaves market state,
\* ActiveOrder map and exposure unchanged, and a CANCELLED event for the
\* order that is the asset's ActiveOrder is not ignored: the entry goes.
C5_StaleCancel ==
    [][ \A a \in Assets :
          ( /\ Delivers("order")
            /\ Head(userQueue).status = "CANCELLED"
            /\ Head(userQueue).asset = a
            /\ states[a].state \in { "WAIT_BUY_FILL", "ASK_CHASE", "WAIT_SELL_FILL" }
            /\ activeOrders[a].orderId # 0 )
          => IF Head(userQueue).orderId = activeOrders[a].orderId
             THEN activeOrders'[a] = NoOrder
             ELSE ProgramUnchanged ]_vars

\* the side of a fill matches the state the market is in
SideMatches(side, state) ==
    \/ side = "BUY" /\ state = "WAIT_BUY_FILL"
    \/ side = "SELL" /\ state \in { "ASK_CHASE", "WAIT_SELL_FILL" }

\* C6 (dropped fills): a Fill for an asset without a state record, or whose
\* order id is not the one recorded for the asset, or whose side does not
\* match the market's state, changes neither market state, ActiveOrder map
\* nor exposure.
C6_FillDropped ==
    [][ ( /\ Delivers("fill")
          /\ LET fill == Head(userQueue)
             IN  \/ states[fill.asset].state = "NONE"
                 \/ fill.orderId # activeOrders[fill.asset].orderId
                 \/ ~SideMatches(fill.side, states[fill.asset].state) )
        => ProgramUnchanged ]_vars

\* C7 (fill/place ordering): a Fill for an order is not handled while the
\* place call for that order is still awaited, that is, before the call has
\* recorded the ActiveOrder and the market has reached the waiting state.
C7_FillAfterPlace ==
    [][ Delivers("fill")
        => ~( /\ loop.pc = "await_post"
              /\ loop.resp.ok
              /\ loop.resp.orderId = Head(userQueue).orderId ) ]_vars

\* C8 (check-then-act): when a buy is recorded (PLACE_BUY to WAIT_BUY_FILL),
\* the size and price recorded are the size and price canPlaceBuy admitted,
\* and the risk total is still the one the check saw: no exposure update of
\* another market came in between.
C8_CheckThenAct ==
    [][ \A a \in Assets :
          ( states[a].state = "PLACE_BUY" /\ states'[a].state = "WAIT_BUY_FILL" )
          => ( /\ states'[a].buySize = checked[a].size
               /\ states'[a].buyPrice = checked[a].price
               /\ globalNotionalAtRisk = checked[a].glob ) ]_vars

\* C9 (top of book): whenever both sides of lastPrices are present they
\* satisfy 0 < bid < ask <= 1 and ask - bid <= 0.20, whatever the sequence
\* of book, price_change and tick_size_change messages; a message that
\* violates this never reaches the cache.
C9_TopOfBook ==
    \A a \in Assets :
        HasPrices(lastPrices, a)
        => /\ 0 < lastPrices[a].bestBid
           /\ lastPrices[a].bestBid < lastPrices[a].bestAsk
           /\ lastPrices[a].bestAsk <= PriceScale
           /\ (lastPrices[a].bestAsk - lastPrices[a].bestBid) * 5 <= PriceScale

\* C10 (replace with failed cancel): when the cancel of a replace returns a
\* failure, no new order is submitted to the venue, and ActiveOrder map,
\* market state and exposure stay as they are.
C10_ReplaceCancelFailed ==
    [][ ( /\ loop.pc = "await_cancel"
          /\ loop.handler \in { "WAIT_BUY_FILL", "ASK_CHASE", "WAIT_SELL_FILL" }
          /\ ~loop.resp.ok
          /\ loop'.pc # "await_cancel" )
        => ( /\ loop'.pc # "await_post"
             /\ venue' = venue
             /\ ProgramUnchanged ) ]_vars

\* C11 (buy replace with failed place): when, in WAIT_BUY_FILL, the cancel
\* of a replace succeeded and the place that follows fails, the market ends
\* in IDLE (it does not stay in WAIT_BUY_FILL without a live order) and the
\* exposure of the cancelled buy is released.
C11_BuyReplacePlaceFailed ==
    [][ \A a \in Assets :
          ( /\ loop.pc = "await_post"
            /\ loop.cur = a
            /\ loop.handler = "WAIT_BUY_FILL"
            /\ loop.cancelled
            /\ ~loop.resp.ok
            /\ states[a].state = "WAIT_BUY_FILL"
            /\ loop'.pc # "await_post" )
          => ( /\ states'[a].state = "IDLE"
               /\ exposureByMarket' =
                    cancelBuyOrder(Risk, a, loop.oldSize, loop.oldPrice).exp
               /\ globalNotionalAtRisk' =
                    cancelBuyOrder(Risk, a, loop.oldSize, loop.oldPrice).glob ) ]_vars

\* the place of a sell replace has failed after its cancel succeeded: the
\* market holds shares, nothing of it is live and no Fill is on its way
SellReplaceBroken(a) ==
    /\ loop.pc = "await_post"
    /\ loop.cur = a
    /\ loop.handler \in { "ASK_CHASE", "WAIT_SELL_FILL" }
    /\ loop.cancelled
    /\ ~loop.resp.ok
    /\ states[a].state \in { "ASK_CHASE", "WAIT_SELL_FILL" }
    /\ states[a].positionShares > 0
    /\ LiveAt(a) = {}
    /\ \A i \in 1..Len(userQueue) :
          ~(userQueue[i].type = "fill" /\ userQueue[i].asset = a)

\* a sell for the asset goes to the venue: one the venue accepts, or any
\* submission that is not the failed place of the replace itself
SellSubmitted(a) ==
    /\ loop.pc = "await_post"
    /\ loop.cur = a
    /\ loop.side = "SELL"
    /\ (loop.resp.ok \/ ~loop.cancelled)

\* C12 (sell-side repair): a market that holds a position and has no live
\* sell after a sell replace whose cancel succeeded and whose place failed
\* (in ASK_CHASE or WAIT_SELL_FILL) eventually has a new sell submitted by
\* a later tick, the price cache staying valid.
C12_SellRepair ==
    \A a \in Assets : SellReplaceBroken(a) ~> SellSubmitted(a)

\* placeBuy called by the PLACE_BUY handler for asset a is about to fail
\* before the venue call (side-lock held, would cross)
PlaceBuyRefused(a) ==
    /\ loop.pc = "run"
    /\ loop.cur = a
    /\ states[a].state = "PLACE_BUY"
    /\ checkExitCriteria(states[a], lastPrices, now, a) = "none"
    /\ HasPrices(lastPrices, a)
    /\ PlaceRefusal(activeOrders, "BUY", a, lastPrices[a].bestBid,
                    lastPrices[a].bestAsk) # "none"

\* postOrder of the PLACE_BUY handler for asset a has failed (venue
\* rejection or thrown error) and the answer is about to reach placeBuy
PlaceBuyRejected(a) ==
    /\ loop.pc = "await_post"
    /\ loop.cur = a
    /\ loop.handler = "PLACE_BUY"
    /\ ~loop.resp.ok

\* C13 (buy placement failure is clean): whenever placeBuy fails (side-lock
\* held, would cross, venue rejection or thrown error) no ActiveOrder is
\* recorded, no exposure is recorded and the market goes from PLACE_BUY to
\* IDLE.
C13_PlaceBuyFailure ==
    [][ \A a \in Assets :
          ( (PlaceBuyRefused(a) \/ PlaceBuyRejected(a)) /\ loop' # loop )
          => ( /\ states[a].state = "PLACE_BUY"
               /\ states'[a].state = "IDLE"
               /\ activeOrders' = activeOrders
               /\ exposureByMarket' = exposureByMarket
               /\ globalNotionalAtRisk' = globalNotionalAtRisk ) ]_vars

\* the venue has rejected the buy of a market in PLACE_BUY
C13_Witness ==
    \E a \in Assets : PlaceBuyRejected(a) /\ states[a].state = "PLACE_BUY"

\* placeBuy is refused by the side-lock
C13_WitnessSideLock == \E a \in Assets : PlaceBuyRefused(a)

\* the arguments of a place call that would cross the book
WouldCross(side, bestBid, bestAsk) ==
    \/ side = "BUY" /\ bestBid >= bestAsk
    \/ side = "SELL" /\ bestAsk <= bestBid

\* the step is placeBuy / placeSell running on crossing arguments
CrossingCall ==
    /\ loop.pc = "call"
    /\ loop' # loop
    /\ WouldCross(loop.side, loop.bestBid, loop.bestAsk)

\* C14 (post-only): no BUY is submitted to the venue with best_bid >=
\* best_ask and no SELL with best_ask <= best_bid; a place call with such
\* arguments fails, with would_cross or, when the asset already has an
\* ActiveOrder, with order_already_active (the side-lock is tested first),
\* and leaves the ActiveOrder map and the venue unchanged.
C14_PostOnly ==
    [][ /\ CrossingCall
          => ( /\ loop'.pc = "done"
               /\ ~loop'.resp.ok
               /\ loop'.error = IF activeOrders[loop.cur].orderId # 0
                                 THEN "order_already_active" ELSE "would_cross"
               /\ activeOrders' = activeOrders
               /\ venue' = venue )
        /\ ( loop.pc # "await_post" /\ loop'.pc = "await_post" )
          => ~WouldCross(loop'.side, loop'.bestBid, loop'.bestAsk) ]_vars

\* C14 as stated: every place call with crossing arguments returns a
\* would_cross failure and leaves the ActiveOrder map unchanged.
C14_PostOnlyAsStated ==
    [][ CrossingCall
        => ( /\ loop'.pc = "done"
             /\ ~loop'.resp.ok
             /\ loop'.error = "would_cross"
             /\ activeOrders' = activeOrders ) ]_vars

\* a place call with crossing arguments has returned would_cross
C14_Witness ==
    /\ loop.pc = "done"
    /\ WouldCross(loop.side, loop.bestBid, loop.bestAsk)
    /\ loop.error = "would_cross"
    /\ ~loop.resp.ok

\* C15 (round trip leaves no exposure): when a market that has completed a
\* cycle (buy recorded and filled, sell filled) goes from COMPLETE to IDLE,
\* the asset's committed shares and notional are both zero, whatever the
\* buy and sell prices were.
C15_RoundTrip ==
    [][ \A a \in Assets :
          ( states[a].state = "COMPLETE" /\ states'[a].state = "IDLE" )
          => ( /\ exposureByMarket'[a].shares = 0
               /\ exposureByMarket'[a].notionalUsdc = 0 ) ]_vars

\* C16 (global notional is the sum of the parts): after any sequence of
\* recordBuyOrder, recordSellFill, cancelBuyOrder and cleanMarket on any
\* assets, globalNotionalAtRisk equals the sum over all assets of the
\* per-asset committed notional.
C16_GlobalIsSum == globalNotionalAtRisk = SumNotional(Assets)

\* C17 (risk idempotence): from any RiskManager state, recordBuyOrder
\* followed by cancelBuyOrder with the same asset, size and price returns
\* globalNotionalAtRisk and the asset's shares and notional exactly to the
\* values they had before.
C17_RecordThenCancel ==
    \A a \in Assets, size \in RiskSizes, price \in RiskPrices :
        LET r == cancelBuyOrder(recordBuyOrder(Risk, a, size, price), a, size, price)
        IN  /\ r.glob = globalNotionalAtRisk
            /\ r.exp[a].shares = exposureByMarket[a].shares
            /\ r.exp[a].notionalUsdc = exposureByMarket[a].notionalUsdc

\* the denials of can_place_buy as the specification lists them, for an
\* order of size at price with the given spread on asset a
Denial(reason, a, size, price, spread) ==
    CASE reason = "min_notional" ->
           size * price < (995 * MIN_NOTIONAL_PER_ORDER_USDC) \div 1000
      [] reason = "expected_profit_low" ->
           MulLess(spread, size * price, MIN_EXPECTED_PROFIT_USDC * PriceScale)
      [] reason = "min_size" -> size < MIN_SIZE_SHARES
      [] reason = "shares_cap" ->
           exposureByMarket[a].shares + size > MAX_SHARES_PER_MARKET
      [] reason = "market_notional_cap" ->
           exposureByMarket[a].notionalUsdc + size * price > MAX_USDC_PER_MARKET
      [] reason = "global_notional_cap" ->
           globalNotionalAtRisk + size * price > MAX_NOTIONAL_AT_RISK_USDC

DenialOrder ==
    << "min_notional", "expected_profit_low", "min_size", "shares_cap",
       "market_notional_cap", "global_notional_cap" >>

\* the first denial in DenialOrder that applies, "allowed" when none does
FirstDenial(a, size, price, spread) ==
    LET hits == { i \in 1..Len(DenialOrder) :
                    Denial(DenialOrder[i], a, size, price, spread) }
    IN  IF hits = {} THEN "allowed"
        ELSE DenialOrder[CHOOSE i \in hits : \A j \in hits : i <= j]

IdleDenied(a) ==
    /\ loop.pc = "run"
    /\ loop.cur = a
    /\ states[a].state = "IDLE"
    /\ checkExitCriteria(states[a], lastPrices, now, a) = "none"
    /\ HasPrices(lastPrices, a)
    /\ lastPrices[a].bestAsk - lastPrices[a].bestBid >= MIN_SPREAD
    /\ canPlaceBuy(Risk, a, calculateOrderSize(lastPrices[a].bestBid),
                   lastPrices[a].bestBid,
                   lastPrices[a].bestAsk - lastPrices[a].bestBid) # "allowed"

\* C19 (risk denial blocks the buy): whenever canPlaceBuy denies the buy
\* considered for an IDLE market, no order is submitted to the venue for
\* that market, its state stays IDLE, and exposure and global notional are
\* unchanged.
C19_DenialBlocks ==
    [][ \A a \in Assets :
          ( IdleDenied(a) /\ loop' # loop )
          => ( /\ loop'.pc # "await_post"
               /\ venue' = venue
               /\ states'[a].state = "IDLE"
               /\ exposureByMarket' = exposureByMarket
               /\ globalNotionalAtRisk' = globalNotionalAtRisk ) ]_vars

\* the IDLE handler meets a global_notional_cap denial
C19_Witness ==
    \E a \in Assets :
        /\ IdleDenied(a)
        /\ canPlaceBuy(Risk, a, calculateOrderSize(lastPrices[a].bestBid),
                       lastPrices[a].bestBid,
                       lastPrices[a].bestAsk - lastPrices[a].bestBid)
             = "global_notional_cap"

\* C20 (deactivation with inventory): when a market holding shares is
\* deactivated, the RiskManager entry of the asset is cleaned only once
\* the liquidation sell has filled or failed, not while that sell is live
\* at the venue.
C20_CleanAfterLiquidation ==
    [][ \A a \in Assets :
          ( /\ loop.handler = "DEACTIVATE"
            /\ loop.cur = a
            /\ states[a].positionShares > 0
            /\ exposureByMarket[a].present
            /\ ~exposureByMarket'[a].present )
          => ~\E o \in venue' : o.asset = a /\ o.side = "SELL" ]_vars

\* C21 (liquidation only of held shares): during deactivation a liquidation
\* SELL is submitted only for a market that holds unsold shares; none is
\* submitted for a market whose sell has already filled (state COMPLETE).
C21_LiquidationOnlyHeld ==
    [][ \A a \in Assets :
          ( /\ loop.pc = "run"
            /\ loop.cur = a
            /\ states[a].state = "COMPLETE" )
          => ~( /\ loop'.pc = "await_post"
               /\ loop'.handler = "DEACTIVATE"
               /\ loop'.side = "SELL" ) ]_vars

\* the market of asset a is being deactivated or has been removed
Deactivated(sts, a) == sts[a].state \in { "DEACTIVATING", "NONE" }

\* C22 (grace period): a tick deactivates a market exactly when 30 s or more
\* have passed since its initializedAt and either no prices are cached
\* (reason no_prices) or the cached spread is strictly below
\* MIN_SPREAD_CENTS / 100 (reason spread_too_small); a spread equal to the
\* minimum does not deactivate, and nothing does before the 30 s.
C22_GracePeriod ==
    [][ \A a \in Assets :
          ( loop.pc = "run" /\ loop.cur = a /\ states[a].state # "NONE" )
          => LET age == now - states[a].initializedAt
                 spread == lastPrices[a].bestAsk - lastPrices[a].bestBid
                 reason == checkExitCriteria(states[a], lastPrices, now, a)
                 absent == lastPrices[a] = NoPrices
             IN  /\ Deactivated(states', a)
                       <=> ( age >= 30000 /\ (absent \/ spread < MIN_SPREAD) )
                 /\ reason = "no_prices" <=> ( age >= 30000 /\ absent )
                 /\ reason = "spread_too_small"
                       <=> ( age >= 30000 /\ ~absent /\ spread < MIN_SPREAD ) ]_vars

\* C23 (shutdown leaves nothing live): once stop() has completed, no order
\* of the system is live at the venue and no ActiveOrder is left, orders
\* whose placement was in flight when stop() was called and liquidation
\* sells of earlier deactivations included.
C23_ShutdownLeavesNothing ==
    stop.pc = "done" => ( /\ venue = {}
                          /\ \A a \in Assets : activeOrders[a].orderId = 0 )

\* C24 (dry-run keeps the bookkeeping): with DRY_RUN enabled a successful
\* place makes no venue call and still records the ActiveOrder of the
\* asset (so that the side-lock refuses a second place).
C24_DryRunBookkeeping ==
    [][ ( /\ dryRun
          /\ loop.pc = "call"
          /\ loop'.pc = "done"
          /\ loop'.resp.ok )
        => ( /\ venue' = venue
             /\ activeOrders'[loop.cur].orderId = loop'.resp.orderId
             /\ activeOrders'[loop.cur].side = loop.side ) ]_vars

C28_ShouldReplaceBuy ==
    \A a \in Assets :
        ( tickSizes[a] # 0 /\ HasPrices(lastPrices, a) )
        => LET order == activeOrders[a]
               bid == lastPrices[a].bestBid
           IN  shouldReplaceBuy(activeOrders, now, a, bid)
                 <=> ( /\ order.orderId # 0
                       /\ order.side = "BUY"
                       /\ \/ now - order.placedAt > ORDER_TTL_MS
                          \/ Abs(bid - order.price)
                                >= REPLACE_PRICE_TICKS * tickSizes[a] )

\* C27 (ask chase is bounded): a market in ASK_CHASE never counts more than
\* ASK_CHASE_MAX_REPLACES replaces, and a tick that processes it when more
\* than ASK_CHASE_WINDOW_SEC have passed since the chase started (or the
\* replace limit is reached) takes it out of ASK_CHASE, so that it never
\* stays in ASK_CHASE beyond the chase window.
C27_AskChaseBounded ==
    [][ \A a \in Assets :
          /\ states'[a].askChaseReplaceCount <= ASK_CHASE_MAX_REPLACES
          /\ ( /\ loop.pc = "run" /\ loop.cur = a
               /\ states[a].state = "ASK_CHASE"
               /\ HasPrices(lastPrices, a)
               /\ \/ now - states[a].askChaseStartedAt > ASK_CHASE_WINDOW_SEC * 1000
                  \/ states[a].askChaseReplaceCount >= ASK_CHASE_MAX_REPLACES )
             => states'[a].state # "ASK_CHASE" ]_vars

\* the candidates of a sequence
Members(markets) == { markets[i] : i \in 1 .. Len(markets) }

\* the candidates of a sequence whose condition id is e
OfEvent(markets, e) == { c \in Members(markets) : c.conditionId = e }

\* C29 (per-event cap, I4): what selectMarkets returns holds at most
\* MAX_MARKETS_PER_EVENT assets of any one condition id, and those it keeps
\* of a condition id are its highest-scoring eligible candidates: no
\* eligible candidate of that condition id left out scores strictly higher
\* than one that is kept.
C29_PerEventCap ==
    selector.done
    => \A e \in 1 .. NumConditions :
         LET kept == OfEvent(selector.final, e)
             eligible == OfEvent(Eligible(selector.candidates), e)
         IN  /\ Cardinality(kept) <= selector.MAX_MARKETS_PER_EVENT
             /\ kept \subseteq eligible
             /\ \A k \in kept : \A c \in eligible \ kept : c.score <= k.score

\* a condition id with three eligible candidates of different scores under
\* a cap of two: the two best are returned
C29_Witness ==
    /\ selector.done
    /\ selector.MAX_MARKETS_PER_EVENT = 2
    /\ \E e \in 1 .. NumConditions :
         /\ Cardinality(OfEvent(Eligible(selector.candidates), e)) = 3
         /\ Cardinality({ c.score : c \in OfEvent(selector.candidates, e) }) = 3
         /\ { c.score : c \in OfEvent(selector.final, e) } = { MaxScore, MaxScore - 1 }

\* C30 (top-K selection): selectMarkets returns at most MAX_MARKETS
\* candidates, all of them survivors of the per-event cap, and no survivor
\* left out scores strictly higher than a returned one, whatever
\* MAX_MARKETS_PER_EVENT >= 1 is.
C30_TopK ==
    selector.done
    => LET surviving == applyEventLimit(SortByScore(Eligible(selector.candidates)),
                                        selector.MAX_MARKETS_PER_EVENT)
           S == Members(surviving)
           R == Members(selector.final)
       IN  /\ Len(selector.final) <= selector.MAX_MARKETS
           /\ R \subseteq S
           /\ \A r \in R : \A c \in S \ R : c.score <= r.score

\* the top of book of the outcome a candidate trades, from the market it
\* was built from
ChosenTop(market, c) == TopOf(IF c.side = "YES" THEN market.yes ELSE market.no)

\* the strict filters as stated, on exact numbers: the spread within
\* [MIN_SPREAD_CENTS / 100, MAX_SPREAD_CENTS / 100], volume, depth, hours
\* to close and expected profit at or above their thresholds
PassesFilters(market, c) ==
    LET top == ChosenTop(market, c)
        spread == top.ask - top.bid
    IN  /\ spread >= MIN_SPREAD
        /\ spread <= MAX_SPREAD
        /\ market.volume24hrClob >= MIN_VOLUME_24H_USD
        /\ top.depth >= MIN_DEPTH_TOP2_USD
        /\ market.hoursToClose >= HOURS_TO_CLOSE_MIN
        /\ spread * (MIN_NOTIONAL_PER_ORDER_USDC \div UsdcScale)
              >= MIN_EXPECTED_PROFIT_USDC \div SizeScale

\* C31 (selector eligibility): a candidate is returned by the selector
\* exactly when it passes all the strict filters, a spread equal to the
\* minimum being eligible; a candidate failing any filter is not returned.
C31_Eligibility ==
    ( selector.done /\ "market" \in DOMAIN selector )
    => \A c \in Members(selector.candidates) :
         c \in Members(selector.final) <=> PassesFilters(selector.market, c)

\* a spread is valid when both prices are there and differ
ValidSpread(top) == top.bid # 0 /\ top.ask # 0 /\ top.ask # top.bid

\* C32 (side choice): the candidate of a market trades the outcome with the
\* larger spread when both outcomes have a valid spread, the valid one
\* when one has, and there is no candidate when none has; its tokenId,
\* side, spread and depth are those of the chosen outcome.
C32_SideChoice ==
    ( selector.done /\ "market" \in DOMAIN selector
      /\ selector.market.volume24hrClob >= MIN_VOLUME_24H_USD )
    => LET market == selector.market
           yes == TopOf(market.yes)
           no == TopOf(market.no)
       IN  /\ Len(selector.candidates) = 0
                <=> ( ~ValidSpread(yes) /\ ~ValidSpread(no) )
           /\ \A c \in Members(selector.candidates) :
                LET top == ChosenTop(market, c)
                    other == IF c.side = "YES" THEN no ELSE yes
                IN  /\ ValidSpread(top)
                    /\ ValidSpread(other)
                          => top.ask - top.bid >= other.ask - other.bid
                    /\ c.tokenId = ( IF c.side = "YES" THEN 1 ELSE 2 )
                    /\ c.spread = SpreadOf(top.bid, top.ask)
                    /\ c.depth = top.depth

\* both outcomes have a valid spread, NO the larger one (from the REST
\* book, YES from the feed), and the candidate trades NO
C32_Witness ==
    /\ selector.done
    /\ "market" \in DOMAIN selector
    /\ Len(selector.candidates) = 1
    /\ selector.candidates[1].side = "NO"
    /\ selector.candidates[1].depth = 300
    /\ selector.market.yes.ws = [ bestBid |-> 400, bestAsk |-> 600 ]
    /\ selector.market.no.book.ask - selector.market.no.book.bid = MAX_SPREAD
    /\ selector.candidates[1] \in Members(selector.final)

\* C33 (quantization rejects degenerate orders): no order whose maker or
\* taker amount is zero is ever submitted to the venue; building such an
\* order (a size that rounds to 0, for example a sell of floor(filled
\* size) = 0 shares) fails and surfaces as a placement failure.
C33_NoDegenerateOrder ==
    /\ \A o \in venue :
         LET amounts == buildAmounts(o.side, o.price, o.size)
         IN  amounts.makerAmount > 0 /\ amounts.takerAmount > 0
    /\ ( loop.pc = "await_post" /\ loop.size = 0 ) => ~loop.resp.ok

\* C35 (state and order agree): in real mode, whenever no handler is running
\* (the loop sleeps between two passes and stop() has not begun), a market in
\* WAIT_BUY_FILL has a BUY ActiveOrder whose id is state.buyOrderId, a market
\* in ASK_CHASE or WAIT_SELL_FILL has a SELL ActiveOrder whose id is
\* state.sellOrderId, and a market in IDLE or COMPLETE has no ActiveOrder.
C35_StateOrderAgree ==
    ( ~dryRun /\ loop.pc = "sleep" /\ stop.pc = "off" ) =>
        \A a \in Assets :
            /\ states[a].state = "WAIT_BUY_FILL" =>
                 /\ activeOrders[a].side = "BUY"
                 /\ activeOrders[a].orderId = states[a].buyOrderId
            /\ states[a].state \in { "ASK_CHASE", "WAIT_SELL_FILL" } =>
                 /\ activeOrders[a].side = "SELL"
                 /\ activeOrders[a].orderId = states[a].sellOrderId
            /\ states[a].state \in { "IDLE", "COMPLETE" } =>
                 activeOrders[a] = NoOrder

\* the transitions the state diagram lists, other than those into DEACTIVATING
ListedTransitions ==
    { << "IDLE", "PLACE_BUY" >>, << "PLACE_BUY", "WAIT_BUY_FILL" >>,
      << "PLACE_BUY", "IDLE" >>, << "WAIT_BUY_FILL", "PLACE_SELL" >>,
      << "WAIT_BUY_FILL", "IDLE" >>, << "PLACE_SELL", "ASK_CHASE" >>,
      << "ASK_CHASE", "WAIT_SELL_FILL" >>, << "ASK_CHASE", "COMPLETE" >>,
      << "WAIT_SELL_FILL", "COMPLETE" >>, << "COMPLETE", "IDLE" >> }

StateNames ==
    { "IDLE", "PLACE_BUY", "WAIT_BUY_FILL", "PLACE_SELL", "ASK_CHASE",
      "WAIT_SELL_FILL", "COMPLETE", "DEACTIVATING" }

\* what each transition method makes of the record s, with its target state
TransitionResults(s) ==
    { << "PLACE_BUY", transitionToPlaceBuy(s) >>,
      << "WAIT_BUY_FILL", transitionToWaitBuyFill(s, nextOrderId, 400, 500) >>,
      << "PLACE_SELL", transitionToPlaceSell(s, 500) >>,
      << "ASK_CHASE", transitionToAskChase(s, nextOrderId, 600, 500, now) >>,
      << "WAIT_SELL_FILL", transitionToWaitSellFill(s) >>,
      << "COMPLETE", transitionToComplete(s) >>,
      << "IDLE", transitionToIdle(s) >>,
      << "DEACTIVATING", transitionToDeactivating(s) >> }

\* C36 (only allowed transitions): every change of a market's state is one of
\* the listed transitions or a move to DEACTIVATING (removeMarket, by which
\* deactivateMarket ends after its move to DEACTIVATING, takes the record
\* out of the state machine and is not a transition); a
\* transition method invoked on a record whose state is not a listed source
\* of its target returns the record unchanged, whatever the state the
\* record holds; and no transition method changes the state of a record
\* in DEACTIVATING, nor does any step of the program.
C36_AllowedTransitions ==
    [][ \A a \in Assets :
          /\ states'[a].state # states[a].state =>
                \/ << states[a].state, states'[a].state >> \in ListedTransitions
                \/ states'[a].state = "DEACTIVATING"
                \/ states'[a].state = "NONE"
          /\ \A st \in StateNames :
                LET s == [ states[a] EXCEPT !.state = st ]
                IN  \A res \in TransitionResults(s) :
                      /\ ( /\ << st, res[1] >> \notin ListedTransitions
                           /\ res[1] # "DEACTIVATING" ) => res[2] = s
                      /\ st = "DEACTIVATING" => res[2].state = "DEACTIVATING"
                      /\ res[2].state \in { st, res[1] } ]_vars

\* C36: in real mode a market sits in WAIT_BUY_FILL without an ActiveOrder
\* and without exposure, its buy order id still recorded: the venue's cancel
\* has been handled and transitionToIdle, invoked in WAIT_BUY_FILL, has left
\* the record as it was.
C36_Witness ==
    \E a \in Assets :
        /\ ~dryRun
        /\ states[a].state = "WAIT_BUY_FILL"
        /\ states[a].buyOrderId # 0
        /\ activeOrders[a] = NoOrder
        /\ exposureByMarket[a].shares = 0
        /\ stop.pc = "off"

\* C37 (TTL replace takes effect): in real mode, when the loop handles a
\* market in WAIT_BUY_FILL whose BUY ActiveOrder (in WAIT_SELL_FILL: whose
\* SELL ActiveOrder) is older than ORDER_TTL_MS, with prices cached and
\* valid and no exit criterion met, the handler cancels that order at the
\* venue to replace it, whether or not the best price has moved.
C37_TtlReplace ==
    [][ \A a \in Assets :
          ( /\ ~dryRun
            /\ loop.pc = "run" /\ loop.cur = a
            /\ checkExitCriteria(states[a], lastPrices, now, a) = "none"
            /\ HasPrices(lastPrices, a)
            /\ ~AberrantPrices(lastPrices[a].bestBid, lastPrices[a].bestAsk)
            /\ \/ states[a].state = "WAIT_BUY_FILL" /\ activeOrders[a].side = "BUY"
               \/ states[a].state = "WAIT_SELL_FILL" /\ activeOrders[a].side = "SELL"
            /\ now - activeOrders[a].placedAt > ORDER_TTL_MS )
          => ( /\ loop'.pc = "await_cancel"
               /\ loop'.cur = a
               /\ loop'.handler = states[a].state ) ]_vars

\* the step on which the postOrder of a BUY replace returns with success
BuyReplaceSucceeds ==
    /\ loop.pc = "await_post" /\ loop'.pc # "await_post"
    /\ loop.handler = "WAIT_BUY_FILL"
    /\ loop.resp.ok /\ loop.resp.orderId # 0

\* C38 (drift replace accounting): when a BUY replace of an order of size s
\* from price p1 to price p2 succeeds, the asset's committed shares are s,
\* its committed notional is s * p2, global notional has changed by
\* s * (p2 - p1) over the replace (what it holds beyond the asset's own
\* committed notional, which goes from s * p1 to s * p2, is what it was
\* before), the market is in WAIT_BUY_FILL, and state.buyOrderId and the
\* ActiveOrder both hold the new order id.
C38_DriftReplaceAccounting ==
    [][ BuyReplaceSucceeds =>
          LET a == loop.cur
              size == loop.oldSize
              p1 == loop.oldPrice
              p2 == loop.bestBid
          IN  /\ exposureByMarket'[a].shares = size
              /\ exposureByMarket'[a].notionalUsdc = size * p2
              /\ globalNotionalAtRisk' - exposureByMarket'[a].notionalUsdc
                   = globalNotionalAtRisk - exposureByMarket[a].notionalUsdc
              /\ states'[a].state = "WAIT_BUY_FILL"
              /\ states'[a].buyOrderId = loop.resp.orderId
              /\ activeOrders'[a].orderId = loop.resp.orderId ]_vars

\* C39 (price validation before acting): when the loop runs the handler of a
\* market in IDLE, PLACE_BUY, WAIT_BUY_FILL, PLACE_SELL, ASK_CHASE or
\* WAIT_SELL_FILL and the cached prices have bid < 0.001, ask > 0.999 or a
\* spread outside [0.001, 0.5], no order is sent to the venue and none is
\* cancelled, and states, ActiveOrders and exposure are left unchanged.
C39_PriceValidation ==
    [][ \A a \in Assets :
          ( /\ loop.pc = "run" /\ loop.cur = a
            /\ states[a].state \in { "IDLE", "PLACE_BUY", "WAIT_BUY_FILL", "PLACE_SELL",
                                     "ASK_CHASE", "WAIT_SELL_FILL" }
            /\ checkExitCriteria(states[a], lastPrices, now, a) = "none"
            /\ HasPrices(lastPrices, a)
            /\ AberrantPrices(lastPrices[a].bestBid, lastPrices[a].bestAsk) )
          => ( /\ loop'.pc \notin { "await_post", "await_cancel" }
               /\ venue' = venue
               /\ UNCHANGED << states, activeOrders, exposureByMarket,
                               globalNotionalAtRisk >> ) ]_vars

\* C40 (disconnect is final): when the close event arrives of a socket that
\* disconnect() has closed, no reconnection is scheduled: the feed is left
\* closed with no reconnection timer pending, so that no connection is
\* opened until connect / subscribe is called again.
C40_DisconnectFinal ==
    [][ \A f \in Feeds :
          ( conn[f].ws = "closing" /\ conn'[f].ws # "closing" )
          => ( conn'[f].ws = "closed" /\ conn'[f].reconnectTimeout = 0 ) ]_vars
====
